---- MODULE Spec2Model ----
(***************************************************************************)
(* Model of the channels-cpp SPSC ring buffer (src/include/spsc.hpp,       *)
(* channels::spsc::channel<T>) with one producer thread and one consumer   *)
(* thread.  Every memory access of try_send / try_receive that the other   *)
(* thread can observe is its own step.  A cell of type T is modelled as a  *)
(* sequence: <<>> is raw (unconstructed / moved-from / indeterminate)      *)
(* storage and <<v>> is a live object holding v.                           *)
(***************************************************************************)
EXTENDS Integers, Sequences, FiniteSets, TLC

\* ---------------------------------------------------------------- bounds
MaxRequested == 4      \* requested capacities 0..MaxRequested
MaxSent == 8           \* at most MaxSent values are accepted by the ring
MaxValue == 2          \* one-shot values are drawn from 1..MaxValue
MaxCalls == 3          \* calls issued per one-shot handle side
MaxPayloads == 2       \* arc payloads allocated by make_arc
WordBits == 6          \* width of size_t in the model (arithmetic mod 2^WordBits)
MaxQueue == 3          \* largest capacity of a spsc_mutex
MaxWrites == 4         \* values written to a spsc_mutex

Word == 2 ^ WordBits

\* ------------------------------------------------------ ResponseStatus
SUCCESS == "SUCCESS"
CHANNEL_FULL == "CHANNEL_FULL"
CHANNEL_EMPTY == "CHANNEL_EMPTY"
RECEIVER_CLOSED == "RECEIVER_CLOSED"
SENDER_CLOSED == "SENDER_CLOSED"
NoStatus == "none"

\* -------------------------------------------------------- WaitStrategy
BUSY_LOOP == "BUSY_LOOP"
YIELD == "YIELD"
ATOMIC_WAIT == "ATOMIC_WAIT"
WaitStrategies == {BUSY_LOOP, YIELD, ATOMIC_WAIT}

\* ------------------------------------------- one-shot state encoding
RECEIVED_MASK == 2
SENT_MASK == 1
NOT_SENT_MASK == 0

\* the handle objects of the client: the pair returned by the factory and
\* one more object of each type to move into
SenderHandles == {"sender", "sender2"}
ReceiverHandles == {"receiver", "receiver2"}
Handles == SenderHandles \cup ReceiverHandles

VARIABLES
    requested,          \* the constructor argument `capacity`
    capacity_,          \* const size_t capacity_
    capacity_mask_,     \* const size_t capacity_mask_
    buffer_,            \* T* buffer_ : slot index -> cell
    sendCursor_,        \* std::atomic<size_t> sendCursor_
    rcvCursorCache_,    \* size_t rcvCursorCache_   (producer side)
    rcvCursor_,         \* std::atomic<size_t> rcvCursor_
    sendCursorCache_,   \* size_t sendCursorCache_  (consumer side)
    \* producer thread
    ppc,                \* position of the producer
    pop,                \* operation in progress: "none", "try_send", "send"
    overload,           \* "copy" (const T&) or "move" (T&&)
    pvalue,             \* the caller's value object
    sendCursor,         \* local of try_send
    next_sendCursor,    \* local of try_send
    pres,               \* status returned by the last completed producer call
    pHalted,            \* the producer thread has finished
    \* consumer thread
    cpc,                \* position of the consumer
    cop,                \* operation in progress: "none", "try_receive", "receive"
    rcvCursor,          \* local of try_receive
    cvalue,             \* the caller's output variable `value`
    cres,               \* status returned by the last completed consumer call
    \* observation (history) variables
    sent,               \* cells accepted by successful sends, in order
    received,           \* cells returned by successful receives, in order
    constructions,      \* number of placement-new executions on buffer_
    destructions,       \* number of ~T() executions on buffer_
    pCall,              \* snapshot taken when the producer call started
    cCall,              \* snapshot taken when the consumer call started
    pSteps,             \* own steps executed by the current try_send
    cSteps,             \* own steps executed by the current try_receive
    \* example_simple driver
    N,                  \* number of messages of the scripted exchange
    p_i,                \* loop counter of the scripted producer
    c_i,                \* loop counter of the scripted consumer
    \* ownership of the SPSC inner state
    sp_sender,          \* the Sender handle is engaged (holds an Arc)
    sp_receiver,        \* the Receiver handle is engaged (holds an Arc)
    sp_ref_count,       \* arc_payload::ref_count of the inner state
    sp_destroyed,       \* number of runs of channel::~channel
    sp_pendingAtDrop,   \* elements in flight when the Sender was dropped
    \* one-shot channel (src/include/oneshot.hpp, channels::oneshot)
    state_,             \* std::atomic<size_t> state_ of the InnerChannel
    value_,             \* char value_[sizeof(T)] : the slot, as a cell
    handles,            \* the Sender / Receiver objects that exist
    channel_,           \* handle object -> its channel_ pointer is engaged
    use_count,          \* owners of the shared InnerChannel
    inner_destroyed,    \* number of runs of ~InnerChannel
    os_spc,             \* position of the sending thread
    os_svalue,          \* argument `value` of send
    os_sres,            \* status returned by the last completed send
    os_rpc,             \* position of the receiving thread
    os_rop,             \* operation in progress: "none", "try_receive", "receive"
    os_state,           \* local `state` of try_receive
    os_out,             \* the output variable `value`
    os_rres,            \* status returned by the last completed receiver call
    os_sent,            \* cells stored by successful sends, in order
    os_received,        \* cells returned by successful receives, in order
    os_constructions,   \* number of placement-new executions on value_
    os_destructions,    \* number of ~T() executions on value_
    os_sCall,           \* snapshot taken when the send call started
    os_rCall,           \* snapshot taken when the receiver call started
    os_sends,           \* number of send calls started
    os_recvs,           \* number of receiver calls started
    os_Wait,            \* template parameter Wait of the one-shot channel
    os_waited,          \* what the current receive() did between its tries
    \* arc_ptr (src/unnamed/part_006)
    inner,              \* arc_ptr object -> its payload (0 is nullptr)
    ref_count,          \* payload -> arc_payload::ref_count
    arc_status,         \* arc_ptr object -> "none", "building" or "live"
    arc_payload,        \* payload -> "none", "live" or "deleted"
    arc_deletes,        \* payload -> number of `delete inner` executed on it
    arc_made,           \* number of payloads allocated so far
    arc_pc,             \* thread -> position in its arc_ptr operation
    arc_op,             \* thread -> the operation in progress
    arc_old,            \* thread -> the value its fetch_sub returned
    arc_seen,           \* thread -> what its last use_count() returned
    arc_uaf,            \* a payload was accessed after its delete
    arc_self,           \* an assignment of an arc_ptr object to itself was made
    \* ---- one-shot channel, boolean-flag implementation (oneshot.hpp 261-457)
    fl_value_,          \* T *value_: [null, obj]; obj is <<>> or the T <<v>>
    isSentCache_,       \* bool, sender thread only
    isReceivedCache_,   \* bool, receiver thread only
    isReady_,           \* std::atomic<bool>
    fl_spc,             \* sender thread: position in send
    fl_svalue,          \* sender thread: the argument of send
    fl_sres,            \* sender thread: status of the last send
    fl_rpc,             \* receiver thread: position in try_receive
    fl_out,             \* receiver thread: the caller's `value`
    fl_rres,            \* receiver thread: status of the last try_receive
    fl_rCall,           \* the current try_receive: started after a SUCCESS, read *value_
    fl_closed,          \* the last is_closed(): what it returned, what was true
    fl_sends,           \* number of send calls
    fl_recvs,           \* number of try_receive calls
    fl_successes,       \* number of try_receive calls that returned SUCCESS
    fl_nullDeref,       \* *value_ was evaluated with value_ == nullptr
    fl_alive,           \* the InnerChannel exists (a handle still owns it)
    fl_built,           \* number of T constructed in *value_
    fl_destructs,       \* number of T destructor calls on *value_
    fl_frees,           \* number of times the storage of value_ was released
    fl_sent,            \* number of send calls that returned SUCCESS
    fl_sCall,           \* the current send: isSentCache_ and fl_built at its start
    fl_sclosed          \* the last Sender::is_closed(): what it returned, what was true

ringVars == <<requested, capacity_, capacity_mask_, buffer_, sendCursor_,
              rcvCursorCache_, rcvCursor_, sendCursorCache_>>
prodVars == <<ppc, pop, overload, pvalue, sendCursor, next_sendCursor, pres, pHalted>>
consVars == <<cpc, cop, rcvCursor, cvalue, cres>>
histVars == <<sent, received, constructions, destructions, pCall, cCall, pSteps, cSteps>>
drvVars == <<N, p_i, c_i>>
lifeVars == <<sp_sender, sp_receiver, sp_ref_count, sp_destroyed, sp_pendingAtDrop>>
innerVars == <<state_, value_, handles, channel_, use_count, inner_destroyed>>
osSendVars == <<os_spc, os_svalue, os_sres, os_sCall, os_sends>>
osRecvVars == <<os_rpc, os_rop, os_state, os_out, os_rres, os_rCall, os_recvs,
                os_waited>>
osHistVars == <<os_sent, os_received, os_constructions, os_destructions>>
oneVars == <<innerVars, osSendVars, osRecvVars, osHistVars, os_Wait>>
spscVars == <<ringVars, prodVars, consVars, histVars, drvVars, lifeVars>>
arcVars == <<inner, ref_count, arc_status, arc_payload, arc_deletes, arc_made,
             arc_pc, arc_op, arc_old, arc_seen, arc_uaf, arc_self>>
\* the sub-models beside the SPSC ring and the tri-state one-shot channel
flagInnerVars == <<fl_value_, isSentCache_, isReceivedCache_, isReady_>>
flagSendVars == <<fl_spc, fl_svalue, fl_sres, fl_sends>>
flagRecvVars == <<fl_rpc, fl_out, fl_rres, fl_rCall, fl_closed, fl_recvs,
                  fl_successes, fl_nullDeref>>
flagLifeVars == <<fl_alive, fl_built, fl_destructs, fl_frees, fl_sent, fl_sCall,
                  fl_sclosed>>
flagVars == <<flagInnerVars, flagSendVars, flagRecvVars, flagLifeVars>>
\* one call of next_power_of_2, statement by statement
VARIABLES
    np_pc,              \* "idle", "entry", "loop" or "done"
    np_n,               \* the argument n
    np_power,           \* the local variable power
    np_result           \* the value returned, <<>> before the call returns

\* spsc_mutex (src/include/spsc.hpp 145-194), one writer and one reader
VARIABLES
    mx_built,           \* the constructor has run
    mx_capacity,        \* spsc_mutex::capacity
    mx_buffer,          \* spsc_mutex::buffer, <<>> is a cell never assigned
    mx_size,            \* spsc_mutex::size
    mtx,                \* spsc_mutex::mtx: "free", or the thread that holds it
    write_index,
    read_index,
    mx_wpc,             \* writer: position in write()
    mx_wvalue,          \* writer: the parameter `value`
    mx_wres,            \* writer: what the last write() returned, and why
    mx_rpc,             \* reader: position in read()
    mx_rvalue,          \* reader: the variable passed as `value`
    mx_rres,            \* reader: what the last read() returned, and why
    mx_written,         \* the values stored by write(), in order
    mx_read             \* the values loaded by read(), in order

mxQueueVars == <<mx_capacity, mx_buffer, mx_size, write_index, read_index>>
mxWriterVars == <<mx_wpc, mx_wvalue, mx_wres>>
mxReaderVars == <<mx_rpc, mx_rvalue, mx_rres>>
mxVars == <<mx_built, mxQueueVars, mtx, mxWriterVars, mxReaderVars, mx_written,
            mx_read>>

powVars == <<np_pc, np_n, np_power, np_result>>
extVars == <<arcVars, flagVars, powVars, mxVars>>
arcOthers == <<spscVars, oneVars, flagVars, powVars, mxVars>>
flagOthers == <<spscVars, oneVars, arcVars, powVars, mxVars>>
powOthers == <<spscVars, oneVars, arcVars, flagVars, mxVars>>
mxOthers == <<spscVars, oneVars, arcVars, flagVars, powVars>>
vars == <<spscVars, oneVars, extVars>>

\* ------------------------------------------------------------- helpers
RECURSIVE BitAnd(_, _)
BitAnd(a, b) ==
    IF a = 0 \/ b = 0 THEN 0
    ELSE (a % 2) * (b % 2) + 2 * BitAnd(a \div 2, b \div 2)

\* the while loop of next_power_of_2; 0 stands for "does not terminate"
\* (power wrapped around to 0 and stays 0 <= n forever)
RECURSIVE next_power_of_2_loop(_, _)
next_power_of_2_loop(power, n) ==
    IF power <= n
    THEN IF power = 0 THEN 0
         ELSE next_power_of_2_loop((power * 2) % Word, n)
    ELSE power

\* variant: the loop stops at the first power that is >= n
next_power_of_2_AtLeast(n) ==
    IF n <= 1 THEN 1
    ELSE CHOOSE p \in {2 ^ k : k \in 0 .. WordBits} :
             p >= n /\ \A q \in {2 ^ k : k \in 0 .. WordBits} : q >= n => p <= q

next_power_of_2(n) ==
    IF n <= 1 THEN 1 ELSE next_power_of_2_loop(1, n)

next_index(val) == BitAnd(val + 1, capacity_mask_)

Slots == 0 .. (capacity_ - 1)

\* --------------------------------------------------------------- Init
RingInit ==
    /\ requested \in 0 .. MaxRequested
    /\ capacity_ = next_power_of_2(requested)
    /\ capacity_mask_ = capacity_ - 1
    /\ buffer_ = [i \in 0 .. (capacity_ - 1) |-> <<>>]
    /\ sendCursor_ = 0
    /\ rcvCursorCache_ = 0
    /\ rcvCursor_ = 0
    /\ sendCursorCache_ = 0

ThreadsInit ==
    /\ ppc = "idle" /\ pop = "none" /\ overload = "copy" /\ pvalue = <<>>
    /\ sendCursor = 0 /\ next_sendCursor = 0 /\ pres = NoStatus /\ pHalted = FALSE
    /\ cpc = "idle" /\ cop = "none" /\ rcvCursor = 0 /\ cvalue = <<>>
    /\ cres = NoStatus
    /\ sent = <<>> /\ received = <<>>
    /\ constructions = 0 /\ destructions = 0
    /\ pCall = [send |-> 0, value |-> <<>>, built |-> 0, waited |-> FALSE]
    /\ cCall = [rcv |-> 0, value |-> <<>>, destroyed |-> 0, afterHalt |-> FALSE,
                waited |-> FALSE]
    /\ pSteps = 0 /\ cSteps = 0

\* the factory hands one Arc to the Sender and one to the Receiver
LifeInit ==
    /\ sp_sender = TRUE
    /\ sp_receiver = TRUE
    /\ sp_ref_count = 2
    /\ sp_destroyed = 0
    /\ sp_pendingAtDrop = 0

\* InnerChannel() and the pair built by the factory channel()
InnerChannelInit ==
    /\ state_ = 0
    /\ value_ = <<>>
    /\ handles = {"sender", "receiver"}
    /\ channel_ = [h \in Handles |-> h \in {"sender", "receiver"}]
    /\ use_count = 2
    /\ inner_destroyed = 0

OneshotThreadsInit ==
    /\ os_spc = "idle" /\ os_svalue = <<>> /\ os_sres = NoStatus
    /\ os_rpc = "idle" /\ os_rop = "none" /\ os_state = 0 /\ os_out = <<>>
    /\ os_rres = NoStatus
    /\ os_sent = <<>> /\ os_received = <<>>
    /\ os_constructions = 0 /\ os_destructions = 0
    /\ os_sCall = [state |-> 0, built |-> 0, emptied |-> 0]
    /\ os_rCall = [out |-> <<>>, afterSuccess |-> FALSE, destroyed |-> 0,
                   sendAt |-> "idle"]
    /\ os_sends = 0 /\ os_recvs = 0
    /\ os_waited = "no"

\* channel<T>() : Wait defaults to WaitStrategy::BUSY_LOOP
OneshotInit ==
    /\ InnerChannelInit
    /\ OneshotThreadsInit
    /\ os_Wait = BUSY_LOOP

\* ============================================================ arc_ptr
\* channels::arc_ptr (src/unnamed/part_006).  Each arc_ptr object belongs
\* to one thread, which is the only one to touch it; the threads meet only
\* in ref_count, in delete and in the payload.  Every access to a payload
\* is its own step.

\* the arc_ptr objects of the program and the thread that uses each
ArcThreads == {1, 2}
ArcHandles == {"a1", "a2", "b1", "b2"}
ArcOwner(h) == IF h \in {"a1", "a2"} THEN 1 ELSE 2
Payloads == 1 .. MaxPayloads

\* no operation in progress
NoArcOp == [kind |-> "none", dst |-> "a1", src |-> "a1"]

ArcInit ==
    /\ inner = [h \in ArcHandles |-> 0]
    /\ ref_count = [p \in Payloads |-> 0]
    /\ arc_status = [h \in ArcHandles |-> "none"]
    /\ arc_payload = [p \in Payloads |-> "none"]
    /\ arc_deletes = [p \in Payloads |-> 0]
    /\ arc_made = 0
    /\ arc_pc = [t \in ArcThreads |-> "idle"]
    /\ arc_op = [t \in ArcThreads |-> NoArcOp]
    /\ arc_old = [t \in ArcThreads |-> 0]
    /\ arc_seen = [value |-> 0, holders |-> 0]
    /\ arc_uaf = FALSE
    /\ arc_self = FALSE

\* the sub-models beside the ring and the tri-state one-shot channel
\* oneshot.hpp 402-404, 446-449
FlagInit ==
    /\ fl_value_ = [null |-> FALSE, obj |-> <<>>]
    /\ isSentCache_ = FALSE
    /\ isReceivedCache_ = FALSE
    /\ isReady_ = FALSE
    /\ fl_spc = "idle" /\ fl_svalue = <<>> /\ fl_sres = NoStatus
    /\ fl_rpc = "idle" /\ fl_out = <<>> /\ fl_rres = NoStatus
    /\ fl_rCall = [afterSuccess |-> FALSE, accessed |-> FALSE]
    /\ fl_closed = [value |-> FALSE, received |-> FALSE]
    /\ fl_sends = 0 /\ fl_recvs = 0 /\ fl_successes = 0
    /\ fl_nullDeref = FALSE
    /\ fl_alive = TRUE
    /\ fl_built = 0 /\ fl_destructs = 0 /\ fl_frees = 0 /\ fl_sent = 0
    /\ fl_sCall = [closedBefore |-> FALSE, built |-> 0]
    /\ fl_sclosed = [value |-> FALSE, sent |-> FALSE]

\* no call of next_power_of_2 has been made
PowInit ==
    /\ np_pc = "idle"
    /\ np_n = 0
    /\ np_power = 0
    /\ np_result = <<>>

\* what write() / read() returned: nothing yet
NoResult == [ret |-> "none", why |-> "none"]

\* no spsc_mutex has been constructed; the member initialisers of
\* size, write_index and read_index are 0
MutexInit ==
    /\ mx_built = FALSE
    /\ mx_capacity = 0
    /\ mx_buffer = <<>>
    /\ mx_size = 0
    /\ mtx = "free"
    /\ write_index = 0
    /\ read_index = 0
    /\ mx_wpc = "idle" /\ mx_wvalue = <<>> /\ mx_wres = NoResult
    /\ mx_rpc = "idle" /\ mx_rvalue = <<>> /\ mx_rres = NoResult
    /\ mx_written = <<>>
    /\ mx_read = <<>>

ExtInit == ArcInit /\ FlagInit /\ PowInit /\ MutexInit

Init ==
    /\ RingInit
    /\ ThreadsInit
    /\ LifeInit
    /\ OneshotInit
    /\ ExtInit
    /\ N = 0 /\ p_i = 0 /\ c_i = 0

\* ----------------------------------------------------------- producer
\* The value of the next message: the i-th accepted message carries i
\* (sender.send(i) in the examples).
NextValue == <<Len(sent)>>

\* What the caller of try_send does with the returned status.  A plain
\* try_send hands the status to the client.  The blocking send loops the
\* try-op and applies the wait strategy after each failure.
SenderReturn(status) ==
    /\ pres' = status
    /\ ppc' = IF pop = "send" /\ status # SUCCESS THEN "send_wait" ELSE "idle"

BeginProducerCall(op, ov, v) ==
    /\ ppc = "idle"
    /\ sp_sender
    /\ ~pHalted
    /\ pop' = op
    /\ overload' = ov
    /\ pvalue' = v
    /\ ppc' = "ts_load"
    /\ pSteps' = 0
    /\ pres' = NoStatus
    /\ pCall' = [send |-> sendCursor_, value |-> v, built |-> constructions,
                 waited |-> FALSE]
    /\ UNCHANGED <<ringVars, consVars, sent, received, constructions, destructions,
                   cCall, cSteps, sendCursor, next_sendCursor, pHalted>>
    /\ UNCHANGED <<lifeVars, oneVars, extVars>>

\* client: sender.try_send(v), either overload
StartTrySend ==
    /\ Len(sent) < MaxSent
    /\ \E ov \in {"copy", "move"} : BeginProducerCall("try_send", ov, NextValue)
    /\ UNCHANGED drvVars

\* client: sender.send(v), either overload
StartSend ==
    /\ Len(sent) < MaxSent
    /\ \E ov \in {"copy", "move"} : BeginProducerCall("send", ov, NextValue)
    /\ UNCHANGED drvVars

\* client: the producer thread ends
ProducerHalt ==
    /\ ppc = "idle"
    /\ ~pHalted
    /\ pHalted' = TRUE
    /\ UNCHANGED <<ringVars, consVars, histVars, drvVars, ppc, pop, overload, pvalue,
                   sendCursor, next_sendCursor, pres>>
    /\ UNCHANGED <<lifeVars, oneVars, extVars>>

\* variant: the producer never compares with the cursor of the consumer
TrySendLoad_NoCheck ==
    /\ ppc = "ts_load"
    /\ sendCursor' = sendCursor_
    /\ next_sendCursor' = BitAnd(sendCursor_ + 1, capacity_mask_)
    /\ ppc' = "ts_construct"
    /\ pSteps' = pSteps + 1
    /\ UNCHANGED <<ringVars, consVars, drvVars, sent, received, constructions,
                   destructions, pCall, cCall, cSteps, pop, overload, pvalue, pres,
                   pHalted>>
    /\ UNCHANGED <<lifeVars, oneVars, extVars>>

\* spsc.hpp 44-47 / 64-67: load sendCursor_, compute next, fast-path check
TrySendLoad ==
    /\ ppc = "ts_load"
    /\ sendCursor' = sendCursor_
    /\ next_sendCursor' = BitAnd(sendCursor_ + 1, capacity_mask_)
    /\ ppc' = IF BitAnd(sendCursor_ + 1, capacity_mask_) = rcvCursorCache_
              THEN "ts_refresh" ELSE "ts_construct"
    /\ pSteps' = pSteps + 1
    /\ UNCHANGED <<ringVars, consVars, drvVars, sent, received, constructions,
                   destructions, pCall, cCall, cSteps, pop, overload, pvalue, pres,
                   pHalted>>
    /\ UNCHANGED <<lifeVars, oneVars, extVars>>

\* variant: the T&& overload has already moved from the caller's value when
\* it finds the ring full
TrySendRefresh_ConsumesValue ==
    /\ ppc = "ts_refresh"
    /\ rcvCursorCache_' = rcvCursor_
    /\ IF next_sendCursor = rcvCursor_
       THEN /\ SenderReturn(CHANNEL_FULL)
            /\ pvalue' = IF overload = "move" THEN <<>> ELSE pvalue
       ELSE ppc' = "ts_construct" /\ pres' = pres /\ pvalue' = pvalue
    /\ pSteps' = pSteps + 1
    /\ UNCHANGED <<requested, capacity_, capacity_mask_, buffer_, sendCursor_,
                   rcvCursor_, sendCursorCache_, consVars, drvVars, sent, received,
                   constructions, destructions, pCall, cCall, cSteps, pop, overload,
                   sendCursor, next_sendCursor, pHalted>>
    /\ UNCHANGED <<lifeVars, oneVars, extVars>>

\* variant: try_send itself retries until the consumer has made room
TrySendRefresh_Retry ==
    /\ ppc = "ts_refresh"
    /\ rcvCursorCache_' = rcvCursor_
    /\ ppc' = IF next_sendCursor = rcvCursor_ THEN "ts_load" ELSE "ts_construct"
    /\ pres' = pres
    /\ pSteps' = pSteps + 1
    /\ UNCHANGED <<requested, capacity_, capacity_mask_, buffer_, sendCursor_,
                   rcvCursor_, sendCursorCache_, consVars, drvVars, sent, received,
                   constructions, destructions, pCall, cCall, cSteps, pop, overload,
                   pvalue, sendCursor, next_sendCursor, pHalted>>
    /\ UNCHANGED <<lifeVars, oneVars, extVars>>

\* variant: the full decision is taken on the stale cache, which is never
\* reloaded from rcvCursor_
TrySendRefresh_Stale ==
    /\ ppc = "ts_refresh"
    /\ rcvCursorCache_' = rcvCursorCache_
    /\ IF next_sendCursor = rcvCursorCache_
       THEN SenderReturn(CHANNEL_FULL)
       ELSE ppc' = "ts_construct" /\ pres' = pres
    /\ pSteps' = pSteps + 1
    /\ UNCHANGED <<requested, capacity_, capacity_mask_, buffer_, sendCursor_,
                   rcvCursor_, sendCursorCache_, consVars, drvVars, sent, received,
                   constructions, destructions, pCall, cCall, cSteps, pop, overload,
                   pvalue, sendCursor, next_sendCursor, pHalted>>
    /\ UNCHANGED <<lifeVars, oneVars, extVars>>

\* variant: the full check after the refresh is missing
TrySendRefresh_NeverFull ==
    /\ ppc = "ts_refresh"
    /\ rcvCursorCache_' = rcvCursor_
    /\ ppc' = "ts_construct" /\ pres' = pres
    /\ pSteps' = pSteps + 1
    /\ UNCHANGED <<requested, capacity_, capacity_mask_, buffer_, sendCursor_,
                   rcvCursor_, sendCursorCache_, consVars, drvVars, sent, received,
                   constructions, destructions, pCall, cCall, cSteps, pop, overload,
                   pvalue, sendCursor, next_sendCursor, pHalted>>
    /\ UNCHANGED <<lifeVars, oneVars, extVars>>

\* spsc.hpp 48-49 / 68-69: refresh the cache; still equal => return false
TrySendRefresh ==
    /\ ppc = "ts_refresh"
    /\ rcvCursorCache_' = rcvCursor_
    /\ IF next_sendCursor = rcvCursor_
       THEN SenderReturn(CHANNEL_FULL)
       ELSE ppc' = "ts_construct" /\ pres' = pres
    /\ pSteps' = pSteps + 1
    /\ UNCHANGED <<requested, capacity_, capacity_mask_, buffer_, sendCursor_,
                   rcvCursor_, sendCursorCache_, consVars, drvVars, sent, received,
                   constructions, destructions, pCall, cCall, cSteps, pop, overload,
                   pvalue, sendCursor, next_sendCursor, pHalted>>
    /\ UNCHANGED <<lifeVars, oneVars, extVars>>

\* spsc.hpp 53 / 73: placement new of T(value) or T(std::move(value))
TrySendConstruct ==
    /\ ppc = "ts_construct"
    /\ buffer_' = [buffer_ EXCEPT ![sendCursor] = pvalue]
    /\ pvalue' = IF overload = "move" THEN <<>> ELSE pvalue
    /\ constructions' = constructions + 1
    /\ ppc' = "ts_store"
    /\ pSteps' = pSteps + 1
    /\ UNCHANGED <<requested, capacity_, capacity_mask_, sendCursor_, rcvCursorCache_,
                   rcvCursor_, sendCursorCache_, consVars, drvVars, sent, received,
                   destructions, pCall, cCall, cSteps, pop, overload, sendCursor,
                   next_sendCursor, pres, pHalted>>
    /\ UNCHANGED <<lifeVars, oneVars, extVars>>

\* variant: the producer publishes sendCursor + 1 without the mask
TrySendStore_NoMask ==
    /\ ppc = "ts_store"
    /\ sendCursor_' = sendCursor + 1
    /\ sent' = Append(sent, pCall.value)
    /\ SenderReturn(SUCCESS)
    /\ pSteps' = pSteps + 1
    /\ UNCHANGED <<requested, capacity_, capacity_mask_, buffer_, rcvCursorCache_,
                   rcvCursor_, sendCursorCache_, consVars, drvVars, received,
                   constructions, destructions, pCall, cCall, cSteps, pop, overload,
                   pvalue, sendCursor, next_sendCursor, pHalted>>
    /\ UNCHANGED <<lifeVars, oneVars, extVars>>

\* spsc.hpp 55-56 / 75-76: release store of sendCursor_, return true
TrySendStore ==
    /\ ppc = "ts_store"
    /\ sendCursor_' = next_sendCursor
    /\ sent' = Append(sent, pCall.value)
    /\ SenderReturn(SUCCESS)
    /\ pSteps' = pSteps + 1
    /\ UNCHANGED <<requested, capacity_, capacity_mask_, buffer_, rcvCursorCache_,
                   rcvCursor_, sendCursorCache_, consVars, drvVars, received,
                   constructions, destructions, pCall, cCall, cSteps, pop, overload,
                   pvalue, sendCursor, next_sendCursor, pHalted>>
    /\ UNCHANGED <<lifeVars, oneVars, extVars>>

\* blocking send: the wait strategy (busy loop barrier / yield), then retry
SendWait ==
    /\ ppc = "send_wait"
    /\ ppc' = "ts_load"
    /\ pSteps' = 0
    /\ pCall' = [pCall EXCEPT !.waited = TRUE]
    /\ UNCHANGED <<ringVars, consVars, drvVars, sent, received, constructions,
                   destructions, cCall, cSteps, pop, overload, pvalue,
                   sendCursor, next_sendCursor, pres, pHalted>>
    /\ UNCHANGED <<lifeVars, oneVars, extVars>>

TrySendStep == TrySendLoad \/ TrySendRefresh \/ TrySendConstruct \/ TrySendStore

\* ----------------------------------------------------------- consumer
\* What the caller of try_receive does with the returned status (see
\* SenderReturn): the blocking receive retries after the wait strategy.
ReceiverReturn(status) ==
    /\ cres' = status
    /\ cpc' = IF cop = "receive" /\ status # SUCCESS THEN "recv_wait" ELSE "idle"

\* what reading a cell of buffer_ yields: the live object, or anything at
\* all when the storage holds no object
Indeterminate == {<<>>} \cup {<<v>> : v \in 0 .. MaxSent}
ReadCell(cell) == IF cell = <<>> THEN Indeterminate ELSE {cell}

BeginConsumerCall(op, out) ==
    /\ cpc = "idle"
    /\ sp_receiver
    /\ cop' = op
    /\ cvalue' = out
    /\ cpc' = "tr_load"
    /\ cSteps' = 0
    /\ cres' = NoStatus
    /\ cCall' = [rcv |-> rcvCursor_, value |-> out, destroyed |-> destructions,
                 afterHalt |-> pHalted, waited |-> FALSE]
    /\ UNCHANGED <<ringVars, prodVars, sent, received, constructions, destructions,
                   pCall, pSteps, rcvCursor>>
    /\ UNCHANGED <<lifeVars, oneVars, extVars>>

\* client: receiver.try_receive(value) on the caller's variable
StartTryReceive ==
    /\ BeginConsumerCall("try_receive", cvalue)
    /\ UNCHANGED drvVars

\* client: receiver.receive(), which declares a fresh T value
StartReceive ==
    /\ BeginConsumerCall("receive", <<>>)
    /\ UNCHANGED drvVars

\* variant: try_receive resets the caller's output before looking at the ring
TryReceiveLoad_ClearsOutput ==
    /\ cpc = "tr_load"
    /\ rcvCursor' = rcvCursor_
    /\ cvalue' = <<>>
    /\ cpc' = IF rcvCursor_ = sendCursorCache_ THEN "tr_refresh" ELSE "tr_move"
    /\ cSteps' = cSteps + 1
    /\ UNCHANGED <<ringVars, prodVars, drvVars, sent, received, constructions,
                   destructions, pCall, cCall, pSteps, cop, cres>>
    /\ UNCHANGED <<lifeVars, oneVars, extVars>>

\* spsc.hpp 84-86: load rcvCursor_, fast-path check against the cache
TryReceiveLoad ==
    /\ cpc = "tr_load"
    /\ rcvCursor' = rcvCursor_
    /\ cpc' = IF rcvCursor_ = sendCursorCache_ THEN "tr_refresh" ELSE "tr_move"
    /\ cSteps' = cSteps + 1
    /\ UNCHANGED <<ringVars, prodVars, drvVars, sent, received, constructions,
                   destructions, pCall, cCall, pSteps, cop, cvalue, cres>>
    /\ UNCHANGED <<lifeVars, oneVars, extVars>>

\* variant: the empty check after the refresh is missing
TryReceiveRefresh_NeverEmpty ==
    /\ cpc = "tr_refresh"
    /\ sendCursorCache_' = sendCursor_
    /\ cpc' = "tr_move" /\ cres' = cres
    /\ cSteps' = cSteps + 1
    /\ UNCHANGED <<requested, capacity_, capacity_mask_, buffer_, sendCursor_,
                   rcvCursorCache_, rcvCursor_, prodVars, drvVars, sent, received,
                   constructions, destructions, pCall, cCall, pSteps, cop, rcvCursor,
                   cvalue>>
    /\ UNCHANGED <<lifeVars, oneVars, extVars>>

\* variant: the emptiness decision is taken on the stale cache, which is
\* never reloaded from sendCursor_
TryReceiveRefresh_Stale ==
    /\ cpc = "tr_refresh"
    /\ sendCursorCache_' = sendCursorCache_
    /\ IF rcvCursor = sendCursorCache_
       THEN ReceiverReturn(CHANNEL_EMPTY)
       ELSE cpc' = "tr_move" /\ cres' = cres
    /\ cSteps' = cSteps + 1
    /\ UNCHANGED <<requested, capacity_, capacity_mask_, buffer_, sendCursor_,
                   rcvCursorCache_, rcvCursor_, prodVars, drvVars, sent, received,
                   constructions, destructions, pCall, cCall, pSteps, cop, rcvCursor,
                   cvalue>>
    /\ UNCHANGED <<lifeVars, oneVars, extVars>>

\* spsc.hpp 87-88: refresh the cache; still equal => return false
TryReceiveRefresh ==
    /\ cpc = "tr_refresh"
    /\ sendCursorCache_' = sendCursor_
    /\ IF rcvCursor = sendCursor_
       THEN ReceiverReturn(CHANNEL_EMPTY)
       ELSE cpc' = "tr_move" /\ cres' = cres
    /\ cSteps' = cSteps + 1
    /\ UNCHANGED <<requested, capacity_, capacity_mask_, buffer_, sendCursor_,
                   rcvCursorCache_, rcvCursor_, prodVars, drvVars, sent, received,
                   constructions, destructions, pCall, cCall, pSteps, cop, rcvCursor,
                   cvalue>>
    /\ UNCHANGED <<lifeVars, oneVars, extVars>>

\* spsc.hpp 91: value = std::move(buffer_[rcvCursor])
TryReceiveMove ==
    /\ cpc = "tr_move"
    /\ cvalue' \in ReadCell(buffer_[rcvCursor])
    /\ cpc' = "tr_destroy"
    /\ cSteps' = cSteps + 1
    /\ UNCHANGED <<ringVars, prodVars, drvVars, sent, received, constructions,
                   destructions, pCall, cCall, pSteps, cop, rcvCursor, cres>>
    /\ UNCHANGED <<lifeVars, oneVars, extVars>>

\* variant: the consumer leaves the element in the slot
TryReceiveDestroy_KeepsElement ==
    /\ cpc = "tr_destroy"
    /\ destructions' = destructions + 1
    /\ cpc' = "tr_store"
    /\ cSteps' = cSteps + 1
    /\ UNCHANGED <<ringVars, prodVars, drvVars, sent, received, constructions,
                   pCall, cCall, pSteps, cop, rcvCursor, cvalue, cres>>
    /\ UNCHANGED <<lifeVars, oneVars, extVars>>

\* spsc.hpp 92: buffer_[rcvCursor].~T()
TryReceiveDestroy ==
    /\ cpc = "tr_destroy"
    /\ buffer_' = [buffer_ EXCEPT ![rcvCursor] = <<>>]
    /\ destructions' = destructions + 1
    /\ cpc' = "tr_store"
    /\ cSteps' = cSteps + 1
    /\ UNCHANGED <<requested, capacity_, capacity_mask_, sendCursor_, rcvCursorCache_,
                   rcvCursor_, sendCursorCache_, prodVars, drvVars, sent, received,
                   constructions, pCall, cCall, pSteps, cop, rcvCursor, cvalue, cres>>
    /\ UNCHANGED <<lifeVars, oneVars, extVars>>

\* variant: the consumer publishes the cursor it loaded, without advancing it
TryReceiveStore_NoAdvance ==
    /\ cpc = "tr_store"
    /\ rcvCursor_' = rcvCursor
    /\ received' = Append(received, cvalue)
    /\ ReceiverReturn(SUCCESS)
    /\ cSteps' = cSteps + 1
    /\ UNCHANGED <<requested, capacity_, capacity_mask_, buffer_, sendCursor_,
                   rcvCursorCache_, sendCursorCache_, prodVars, drvVars, sent,
                   constructions, destructions, pCall, cCall, pSteps, cop, rcvCursor,
                   cvalue>>
    /\ UNCHANGED <<lifeVars, oneVars, extVars>>

\* spsc.hpp 94-95: release store of rcvCursor_, return true
TryReceiveStore ==
    /\ cpc = "tr_store"
    /\ rcvCursor_' = BitAnd(rcvCursor + 1, capacity_mask_)
    /\ received' = Append(received, cvalue)
    /\ ReceiverReturn(SUCCESS)
    /\ cSteps' = cSteps + 1
    /\ UNCHANGED <<requested, capacity_, capacity_mask_, buffer_, sendCursor_,
                   rcvCursorCache_, sendCursorCache_, prodVars, drvVars, sent,
                   constructions, destructions, pCall, cCall, pSteps, cop, rcvCursor,
                   cvalue>>
    /\ UNCHANGED <<lifeVars, oneVars, extVars>>

\* blocking receive: the wait strategy (busy loop barrier / yield), then retry
ReceiveWait ==
    /\ cpc = "recv_wait"
    /\ cpc' = "tr_load"
    /\ cSteps' = 0
    /\ cCall' = [cCall EXCEPT !.waited = TRUE]
    /\ UNCHANGED <<ringVars, prodVars, drvVars, sent, received, constructions,
                   destructions, pCall, pSteps, cop, rcvCursor, cvalue, cres>>
    /\ UNCHANGED <<lifeVars, oneVars, extVars>>

TryReceiveStep ==
    TryReceiveLoad \/ TryReceiveRefresh \/ TryReceiveMove \/ TryReceiveDestroy
        \/ TryReceiveStore

ProducerStep == TrySendStep \/ SendWait
ConsumerStep == TryReceiveStep \/ ReceiveWait

\* ------------------------------------------------- free client program
Next ==
    \/ StartTrySend
    \/ StartSend
    \/ ProducerHalt
    \/ TrySendLoad
    \/ TrySendRefresh
    \/ TrySendConstruct
    \/ TrySendStore
    \/ SendWait
    \/ StartTryReceive
    \/ StartReceive
    \/ TryReceiveLoad
    \/ TryReceiveRefresh
    \/ TryReceiveMove
    \/ TryReceiveDestroy
    \/ TryReceiveStore
    \/ ReceiveWait

Spec == Init /\ [][Next]_vars

\* ------------------------------------------ ownership and destruction
\* spsc.hpp 29-33: the loop of ~channel, from index i up to sendCursor
RECURSIVE DestroyFrom(_, _, _)
DestroyFrom(buf, i, sendC) ==
    IF i = sendC THEN buf
    ELSE DestroyFrom([buf EXCEPT ![i] = <<>>], next_index(i), sendC)

\* the number of destructor calls of that loop
RECURSIVE DestroyCount(_, _)
DestroyCount(i, sendC) ==
    IF i = sendC THEN 0 ELSE 1 + DestroyCount(next_index(i), sendC)

\* variant: the destructor walks the buffer from slot 0 instead of from
\* rcvCursor
channel_destructor_FromZero ==
    /\ buffer_' = DestroyFrom(buffer_, 0, sendCursor_)
    /\ destructions' = destructions + DestroyCount(0, sendCursor_)
    /\ sp_destroyed' = sp_destroyed + 1

\* spsc.hpp 24-37: ~channel destructs the elements in [rcvCursor, sendCursor)
\* and deallocates the buffer
channel_destructor ==
    /\ buffer_' = DestroyFrom(buffer_, rcvCursor_, sendCursor_)
    /\ destructions' = destructions + DestroyCount(rcvCursor_, sendCursor_)
    /\ sp_destroyed' = sp_destroyed + 1

\* arc_ptr::release: fetch_sub on ref_count; the drop that observes the
\* prior value 1 deletes the payload, which runs ~channel
ArcRelease ==
    /\ sp_ref_count' = sp_ref_count - 1
    /\ IF sp_ref_count = 1
       THEN channel_destructor
       ELSE UNCHANGED <<buffer_, destructions, sp_destroyed>>

\* the producer thread has ended and its Sender handle is destroyed
DropSender ==
    /\ ppc = "idle"
    /\ pHalted
    /\ sp_sender
    /\ sp_sender' = FALSE
    /\ sp_pendingAtDrop' = Len(sent) - Len(received)
    /\ ArcRelease
    /\ UNCHANGED <<requested, capacity_, capacity_mask_, sendCursor_, rcvCursorCache_,
                   rcvCursor_, sendCursorCache_, prodVars, consVars, drvVars, sent,
                   received, constructions, pCall, cCall, pSteps, cSteps, sp_receiver,
                   oneVars, extVars>>

\* the consumer is between calls and its Receiver handle is destroyed
DropReceiver ==
    /\ cpc = "idle"
    /\ sp_receiver
    /\ sp_receiver' = FALSE
    /\ ArcRelease
    /\ UNCHANGED <<requested, capacity_, capacity_mask_, sendCursor_, rcvCursorCache_,
                   rcvCursor_, sendCursorCache_, prodVars, consVars, drvVars, sent,
                   received, constructions, pCall, cCall, pSteps, cSteps, sp_sender,
                   sp_pendingAtDrop, oneVars, extVars>>

\* the free client program, whose handles can also be dropped
LifeNext ==
    \/ StartTrySend
    \/ StartSend
    \/ ProducerHalt
    \/ TrySendLoad
    \/ TrySendRefresh
    \/ TrySendConstruct
    \/ TrySendStore
    \/ SendWait
    \/ StartTryReceive
    \/ StartReceive
    \/ TryReceiveLoad
    \/ TryReceiveRefresh
    \/ TryReceiveMove
    \/ TryReceiveDestroy
    \/ TryReceiveStore
    \/ ReceiveWait
    \/ DropSender
    \/ DropReceiver

LifeSpec == Init /\ [][LifeNext]_vars

\* ============================================================ one-shot
\* channels::oneshot (src/include/oneshot.hpp, tri-state implementation).
\* One thread uses the Sender handles and one thread uses the Receiver
\* handles; every access to state_ or value_ is its own step.

\* ---------------------------------------------------------- ownership
\* variant: ~InnerChannel leaves the slot alone
InnerChannel_destructor_Never ==
    /\ inner_destroyed' = inner_destroyed + 1
    /\ UNCHANGED <<value_, os_destructions>>

\* ~InnerChannel: the slot is destructed only when the state is SENT
InnerChannel_destructor ==
    /\ inner_destroyed' = inner_destroyed + 1
    /\ IF state_ = SENT_MASK
       THEN /\ value_' = <<>>
            /\ os_destructions' = os_destructions + 1
       ELSE UNCHANGED <<value_, os_destructions>>

\* a std::shared_ptr gives up its ownership; the last one deletes the
\* InnerChannel
SharedRelease ==
    /\ use_count' = use_count - 1
    /\ IF use_count = 1
       THEN InnerChannel_destructor
       ELSE UNCHANGED <<value_, os_destructions, inner_destroyed>>

\* variant: the pointer is copied and `other` keeps it
MoveChannel_KeepsSource(dst, src) ==
    /\ channel_' = [channel_ EXCEPT ![dst] = channel_[src]]
    /\ IF channel_[dst]
       THEN SharedRelease
       ELSE UNCHANGED <<use_count, value_, os_destructions, inner_destroyed>>

\* channel_ = std::move(other.channel_); other.channel_ = nullptr;
\* the pointer held by `dst` before the assignment is released
MoveChannel(dst, src) ==
    /\ channel_' = [channel_ EXCEPT ![dst] = channel_[src], ![src] = FALSE]
    /\ IF channel_[dst]
       THEN SharedRelease
       ELSE UNCHANGED <<use_count, value_, os_destructions, inner_destroyed>>

\* ~Sender / ~Receiver: the shared_ptr member of `h` is destroyed
DropChannel(h) ==
    /\ channel_' = [channel_ EXCEPT ![h] = FALSE]
    /\ IF channel_[h]
       THEN SharedRelease
       ELSE UNCHANGED <<use_count, value_, os_destructions, inner_destroyed>>

\* A handle is touched only by its thread, between that thread's calls.
\* Sender(Sender&& other): a new Sender object is built from `other`
SenderMoveConstruct ==
    /\ os_spc = "idle"
    /\ \E dst \in SenderHandles \ handles : \E src \in SenderHandles \cap handles :
          /\ handles' = handles \cup {dst}
          /\ MoveChannel(dst, src)
    /\ UNCHANGED <<state_, osSendVars, osRecvVars, os_sent, os_received,
                   os_constructions, spscVars, os_Wait, extVars>>

\* Sender& operator=(Sender&& other), self-assignment included
SenderMoveAssign ==
    /\ os_spc = "idle"
    /\ \E dst, src \in SenderHandles \cap handles :
          IF dst # src
          THEN MoveChannel(dst, src)
          ELSE UNCHANGED <<channel_, use_count, value_, os_destructions,
                           inner_destroyed>>
    /\ UNCHANGED <<handles, state_, osSendVars, osRecvVars, os_sent, os_received,
                   os_constructions, spscVars, os_Wait, extVars>>

\* ~Sender
SenderDrop ==
    /\ os_spc = "idle"
    /\ \E h \in SenderHandles \cap handles :
          /\ handles' = handles \ {h}
          /\ DropChannel(h)
    /\ UNCHANGED <<state_, osSendVars, osRecvVars, os_sent, os_received,
                   os_constructions, spscVars, os_Wait, extVars>>

\* Receiver(Receiver&& other)
ReceiverMoveConstruct ==
    /\ os_rpc = "idle"
    /\ \E dst \in ReceiverHandles \ handles : \E src \in ReceiverHandles \cap handles :
          /\ handles' = handles \cup {dst}
          /\ MoveChannel(dst, src)
    /\ UNCHANGED <<state_, osSendVars, osRecvVars, os_sent, os_received,
                   os_constructions, spscVars, os_Wait, extVars>>

\* Receiver& operator=(Receiver&& other), self-assignment included
ReceiverMoveAssign ==
    /\ os_rpc = "idle"
    /\ \E dst, src \in ReceiverHandles \cap handles :
          IF dst # src
          THEN MoveChannel(dst, src)
          ELSE UNCHANGED <<channel_, use_count, value_, os_destructions,
                           inner_destroyed>>
    /\ UNCHANGED <<handles, state_, osSendVars, osRecvVars, os_sent, os_received,
                   os_constructions, spscVars, os_Wait, extVars>>

\* ~Receiver
ReceiverDrop ==
    /\ os_rpc = "idle"
    /\ \E h \in ReceiverHandles \cap handles :
          /\ handles' = handles \ {h}
          /\ DropChannel(h)
    /\ UNCHANGED <<state_, osSendVars, osRecvVars, os_sent, os_received,
                   os_constructions, spscVars, os_Wait, extVars>>

\* -------------------------------------------------------------- send
\* Sender::send(const T& value) through an engaged handle
OneshotStartSend ==
    /\ os_spc = "idle"
    /\ \E h \in SenderHandles : channel_[h]
    /\ os_sends < MaxCalls
    /\ \E v \in 1 .. MaxValue : os_svalue' = <<v>>
    /\ os_spc' = "send_load"
    /\ os_sres' = NoStatus
    /\ os_sCall' = [state |-> state_, built |-> os_constructions,
                    emptied |-> IF os_rpc = "idle" /\ os_rres = CHANNEL_EMPTY
                                THEN os_recvs ELSE 0]
    /\ os_sends' = os_sends + 1
    /\ UNCHANGED <<innerVars, osRecvVars, osHistVars, spscVars, os_Wait, extVars>>

\* variant: send does not look at state_
InnerSendLoad_NoCheck ==
    /\ os_spc = "send_load"
    /\ os_spc' = "send_construct" /\ os_sres' = os_sres
    /\ UNCHANGED <<innerVars, os_svalue, os_sCall, os_sends, osRecvVars,
                   osHistVars, spscVars, os_Wait, extVars>>

\* variant: send is refused only once the value was received
InnerSendLoad_ClosedWhenReceived ==
    /\ os_spc = "send_load"
    /\ IF state_ = RECEIVED_MASK
       THEN os_spc' = "idle" /\ os_sres' = SENDER_CLOSED
       ELSE os_spc' = "send_construct" /\ os_sres' = os_sres
    /\ UNCHANGED <<innerVars, os_svalue, os_sCall, os_sends, osRecvVars,
                   osHistVars, spscVars, os_Wait, extVars>>

\* oneshot.hpp 178-180: load state_, SENDER_CLOSED unless NOT_SENT
InnerSendLoad ==
    /\ os_spc = "send_load"
    /\ IF state_ # NOT_SENT_MASK
       THEN os_spc' = "idle" /\ os_sres' = SENDER_CLOSED
       ELSE os_spc' = "send_construct" /\ os_sres' = os_sres
    /\ UNCHANGED <<innerVars, os_svalue, os_sCall, os_sends, osRecvVars,
                   osHistVars, spscVars, os_Wait, extVars>>

\* variant: SENT is published before the value is constructed
InnerSendConstruct_PublishFirst ==
    /\ os_spc = "send_construct"
    /\ state_' = SENT_MASK
    /\ os_spc' = "send_store"
    /\ UNCHANGED <<value_, handles, channel_, use_count, inner_destroyed, os_svalue,
                   os_sres, os_sCall, os_sends, osRecvVars, osHistVars, spscVars, os_Wait, extVars>>

\* oneshot.hpp 182: new (value_) T(value)
InnerSendConstruct ==
    /\ os_spc = "send_construct"
    /\ value_' = os_svalue
    /\ os_constructions' = os_constructions + 1
    /\ os_spc' = "send_store"
    /\ UNCHANGED <<state_, handles, channel_, use_count, inner_destroyed, os_svalue,
                   os_sres, os_sCall, os_sends, osRecvVars, os_sent,
                   os_received, os_destructions, spscVars, os_Wait, extVars>>

\* oneshot.hpp 183: publish SENT; without ATOMIC_WAIT return SUCCESS
InnerSendStore ==
    /\ os_spc = "send_store"
    /\ state_' = SENT_MASK
    /\ IF os_Wait = ATOMIC_WAIT
       THEN os_spc' = "send_notify" /\ os_sres' = os_sres
       ELSE os_spc' = "idle" /\ os_sres' = SUCCESS
    /\ os_sent' = Append(os_sent, os_svalue)
    /\ UNCHANGED <<value_, handles, channel_, use_count, inner_destroyed, os_svalue,
                   os_sCall, os_sends, osRecvVars, os_received,
                   os_constructions, os_destructions, spscVars, os_Wait, extVars>>

\* variant: the notification does not reach the parked receiver
InnerSendNotify_Lost ==
    /\ os_spc = "send_notify"
    /\ os_spc' = "idle"
    /\ os_sres' = SUCCESS
    /\ UNCHANGED <<innerVars, os_svalue, os_sCall, os_sends, osRecvVars,
                   osHistVars, spscVars, os_Wait, extVars>>

\* oneshot.hpp 184-187: state_.notify_one() wakes a receiver blocked in
\* state_.wait, then send returns SUCCESS
InnerSendNotify ==
    /\ os_spc = "send_notify"
    /\ os_spc' = "idle"
    /\ os_sres' = SUCCESS
    /\ os_rpc' = IF os_rpc = "parked" THEN "recv_wait" ELSE os_rpc
    /\ UNCHANGED <<innerVars, os_svalue, os_sCall, os_sends, os_rop, os_state,
                   os_out, os_rres, os_rCall, os_recvs, os_waited, osHistVars,
                   spscVars, os_Wait, extVars>>

\* ----------------------------------------------------------- receive
\* the caller's output variable before a try_receive
OutputBefore == {<<>>, <<0>>}

OneshotBeginReceiverCall(op, out) ==
    /\ os_rpc = "idle"
    /\ \E h \in ReceiverHandles : channel_[h]
    /\ os_recvs < MaxCalls
    /\ os_rop' = op
    /\ os_out' = out
    /\ os_rpc' = "try_load"
    /\ os_rres' = NoStatus
    /\ os_rCall' = [out |-> out, afterSuccess |-> Len(os_received) > 0,
                    destroyed |-> os_destructions, sendAt |-> os_spc]
    /\ os_recvs' = os_recvs + 1
    /\ os_waited' = "no"
    /\ UNCHANGED <<innerVars, osSendVars, os_state, osHistVars, spscVars, os_Wait, extVars>>

\* Receiver::try_receive(T& value)
OneshotStartTryReceive == \E out \in OutputBefore : OneshotBeginReceiverCall("try_receive", out)

\* Receiver::receive(): `T value;` then the loop around try_receive
OneshotStartReceive == OneshotBeginReceiverCall("receive", <<>>)

\* variant: receive() returns whatever the first try_receive reported
OneshotReceiverReturn_FirstStatus(status) ==
    /\ os_rres' = status
    /\ os_rpc' = "idle"

\* what the caller of InnerChannel::try_receive does with the status:
\* receive() goes on to its wait strategy unless it was SUCCESS
OneshotReceiverReturn(status) ==
    /\ os_rres' = status
    /\ os_rpc' = IF os_rop = "receive" /\ status # SUCCESS THEN "recv_wait" ELSE "idle"

\* variant: try_receive does not test for RECEIVED
InnerTryReceiveLoad_NoClosedCheck ==
    /\ os_rpc = "try_load"
    /\ os_state' = state_
    /\ IF state_ = NOT_SENT_MASK THEN OneshotReceiverReturn(CHANNEL_EMPTY)
       ELSE os_rpc' = "try_move" /\ os_rres' = os_rres
    /\ UNCHANGED <<innerVars, osSendVars, os_rop, os_waited, os_out, os_rCall, os_recvs,
                   osHistVars, spscVars, os_Wait, extVars>>

\* variant: an empty try_receive closes the channel
InnerTryReceiveLoad_EmptyCloses ==
    /\ os_rpc = "try_load"
    /\ os_state' = state_
    /\ IF state_ = RECEIVED_MASK
       THEN OneshotReceiverReturn(RECEIVER_CLOSED) /\ state_' = state_
       ELSE IF state_ = NOT_SENT_MASK
       THEN OneshotReceiverReturn(CHANNEL_EMPTY) /\ state_' = RECEIVED_MASK
       ELSE os_rpc' = "try_move" /\ os_rres' = os_rres /\ state_' = state_
    /\ UNCHANGED <<value_, handles, channel_, use_count, inner_destroyed,
                   osSendVars, os_rop, os_waited, os_out, os_rCall, os_recvs,
                   osHistVars, spscVars, os_Wait, extVars>>

\* oneshot.hpp 196-202: load state_; RECEIVER_CLOSED / CHANNEL_EMPTY
InnerTryReceiveLoad ==
    /\ os_rpc = "try_load"
    /\ os_state' = state_
    /\ IF state_ = RECEIVED_MASK THEN OneshotReceiverReturn(RECEIVER_CLOSED)
       ELSE IF state_ = NOT_SENT_MASK THEN OneshotReceiverReturn(CHANNEL_EMPTY)
       ELSE os_rpc' = "try_move" /\ os_rres' = os_rres
    /\ UNCHANGED <<innerVars, osSendVars, os_rop, os_waited, os_out, os_rCall, os_recvs,
                   osHistVars, spscVars, os_Wait, extVars>>

\* oneshot.hpp 203-204: value = std::forward<T>(*valuePtr)
InnerTryReceiveMove ==
    /\ os_rpc = "try_move"
    /\ os_out' \in ReadCell(value_)
    /\ os_rpc' = "try_destroy"
    /\ UNCHANGED <<innerVars, osSendVars, os_rop, os_waited, os_state, os_rres, os_rCall,
                   os_recvs, osHistVars, spscVars, os_Wait, extVars>>

\* variant: the moved-from object is not destructed
InnerTryReceiveDestroy_KeepsObject ==
    /\ os_rpc = "try_destroy"
    /\ os_rpc' = "try_store"
    /\ UNCHANGED <<innerVars, osSendVars, os_rop, os_waited, os_state, os_out, os_rres,
                   os_rCall, os_recvs, osHistVars, spscVars, os_Wait, extVars>>

\* oneshot.hpp 205: valuePtr->~T()
InnerTryReceiveDestroy ==
    /\ os_rpc = "try_destroy"
    /\ value_' = <<>>
    /\ os_destructions' = os_destructions + 1
    /\ os_rpc' = "try_store"
    /\ UNCHANGED <<state_, handles, channel_, use_count, inner_destroyed, osSendVars,
                   os_rop, os_waited, os_state, os_out, os_rres, os_rCall, os_recvs,
                   os_sent, os_received, os_constructions, spscVars, os_Wait, extVars>>

\* oneshot.hpp 206-207: publish RECEIVED, return SUCCESS
InnerTryReceiveStore ==
    /\ os_rpc = "try_store"
    /\ state_' = RECEIVED_MASK
    /\ OneshotReceiverReturn(SUCCESS)
    /\ os_received' = Append(os_received, os_out)
    /\ UNCHANGED <<value_, handles, channel_, use_count, inner_destroyed, osSendVars,
                   os_rop, os_waited, os_state, os_out, os_rCall, os_recvs, os_sent,
                   os_constructions, os_destructions, spscVars, os_Wait, extVars>>

\* what the receive() in progress has done between tries so far
Waited(now) == IF os_waited = "parked" THEN "parked" ELSE now

\* oneshot.hpp 139-142: YIELD or BUSY_LOOP, then retry
OneshotReceiveWait ==
    /\ os_rpc = "recv_wait"
    /\ os_Wait # ATOMIC_WAIT
    /\ os_rpc' = "try_load"
    /\ os_waited' = Waited("spun")
    /\ UNCHANGED <<innerVars, osSendVars, os_rop, os_state, os_out, os_rres,
                   os_rCall, os_recvs, osHistVars, spscVars, os_Wait, extVars>>

\* oneshot.hpp 143-144: state_.wait(NOT_SENT_MASK) returns when state_ is
\* not NOT_SENT and blocks otherwise; the comparison and the blocking are
\* one step with respect to a store followed by a notification
OneshotAtomicWait ==
    /\ os_rpc = "recv_wait"
    /\ os_Wait = ATOMIC_WAIT
    /\ IF state_ # NOT_SENT_MASK
       THEN os_rpc' = "try_load" /\ os_waited' = Waited("spun")
       ELSE os_rpc' = "parked" /\ os_waited' = "parked"
    /\ UNCHANGED <<innerVars, osSendVars, os_rop, os_state, os_out, os_rres,
                   os_rCall, os_recvs, osHistVars, spscVars, os_Wait, extVars>>

\* state_.wait may unblock spuriously; it then compares again
OneshotSpuriousWake ==
    /\ os_rpc = "parked"
    /\ os_rpc' = "recv_wait"
    /\ UNCHANGED <<innerVars, osSendVars, os_rop, os_state, os_out, os_rres,
                   os_rCall, os_recvs, os_waited, osHistVars, spscVars, os_Wait, extVars>>

OneshotSenderStep ==
    \/ InnerSendLoad
    \/ InnerSendConstruct
    \/ InnerSendStore
    \/ InnerSendNotify
OneshotReceiverStep ==
    \/ InnerTryReceiveLoad
    \/ InnerTryReceiveMove
    \/ InnerTryReceiveDestroy
    \/ InnerTryReceiveStore
    \/ OneshotReceiveWait
    \/ OneshotAtomicWait

\* the one-shot client: both threads call and move/drop their handles freely
OneshotNext ==
    \/ OneshotStartSend
    \/ InnerSendLoad
    \/ InnerSendConstruct
    \/ InnerSendStore
    \/ OneshotStartTryReceive
    \/ OneshotStartReceive
    \/ InnerTryReceiveLoad
    \/ InnerTryReceiveMove
    \/ InnerTryReceiveDestroy
    \/ InnerTryReceiveStore
    \/ OneshotReceiveWait
    \/ SenderMoveConstruct
    \/ SenderMoveAssign
    \/ SenderDrop
    \/ ReceiverMoveConstruct
    \/ ReceiverMoveAssign
    \/ ReceiverDrop

\* the SPSC ring is not used by the one-shot client
OneshotClientInit ==
    /\ Init
    /\ requested = 0

OneshotSpec == OneshotClientInit /\ [][OneshotNext]_vars

\* ------------------------------------- one-shot under each WaitStrategy
\* channel<T, Wait>() for each of the three strategies
OneshotWaitInit ==
    /\ requested = 0
    /\ RingInit
    /\ ThreadsInit
    /\ LifeInit
    /\ InnerChannelInit
    /\ OneshotThreadsInit
    /\ os_Wait \in WaitStrategies
    /\ ExtInit
    /\ N = 0 /\ p_i = 0 /\ c_i = 0

\* both threads keep their handles and call freely
OneshotWaitNext ==
    \/ OneshotStartSend
    \/ InnerSendLoad
    \/ InnerSendConstruct
    \/ InnerSendStore
    \/ InnerSendNotify
    \/ OneshotStartTryReceive
    \/ OneshotStartReceive
    \/ InnerTryReceiveLoad
    \/ InnerTryReceiveMove
    \/ InnerTryReceiveDestroy
    \/ InnerTryReceiveStore
    \/ OneshotReceiveWait
    \/ OneshotAtomicWait
    \/ OneshotSpuriousWake

\* The sender issues its sends and both threads are scheduled fairly; a
\* spurious wake-up may happen but is never owed to the receiver.
OneshotWaitSpec ==
    /\ OneshotWaitInit
    /\ [][OneshotWaitNext]_vars
    /\ WF_vars(OneshotStartSend \/ OneshotSenderStep)
    /\ WF_vars(OneshotReceiverStep)

\* ------------------------------------------------ arc_ptr operations
\* the objects thread t may use, and the places where it can build one
\* (a new object may be handed to the other thread)
OwnHandles(t) == {h \in ArcHandles : ArcOwner(h) = t /\ arc_status[h] = "live"}
FreeHandles == {h \in ArcHandles : arc_status[h] = "none"}

\* an access to payload p after `delete`
AccessAfterDelete(p) == arc_uaf' = (arc_uaf \/ arc_payload[p] # "live")

\* make_arc<T>(args) / arc_ptr(const T&): a new payload with ref_count 1
ArcMake(t) ==
    /\ arc_pc[t] = "idle"
    /\ arc_made < MaxPayloads
    /\ \E dst \in {h \in FreeHandles : ArcOwner(h) = t} :
          /\ inner' = [inner EXCEPT ![dst] = arc_made + 1]
          /\ arc_status' = [arc_status EXCEPT ![dst] = "live"]
    /\ arc_made' = arc_made + 1
    /\ ref_count' = [ref_count EXCEPT ![arc_made + 1] = 1]
    /\ arc_payload' = [arc_payload EXCEPT ![arc_made + 1] = "live"]
    /\ UNCHANGED <<arc_deletes, arc_pc, arc_op, arc_old, arc_seen, arc_uaf, arc_self, arcOthers>>

\* arc_ptr(const arc_ptr& other) : inner(other.inner)
ArcCopyConstruct(t) ==
    /\ arc_pc[t] = "idle"
    /\ \E src \in OwnHandles(t) : \E dst \in FreeHandles :
          /\ inner' = [inner EXCEPT ![dst] = inner[src]]
          /\ IF inner[src] # 0
             THEN /\ arc_status' = [arc_status EXCEPT ![dst] = "building"]
                  /\ arc_pc' = [arc_pc EXCEPT ![t] = "copy_add"]
                  /\ arc_op' = [arc_op EXCEPT ![t] =
                                  [kind |-> "copy", dst |-> dst, src |-> src]]
             ELSE /\ arc_status' = [arc_status EXCEPT ![dst] = "live"]
                  /\ UNCHANGED <<arc_pc, arc_op>>
    /\ UNCHANGED <<ref_count, arc_payload, arc_deletes, arc_made, arc_old, arc_seen,
                   arc_uaf, arc_self, arcOthers>>

\* part_006 51-53 / 60-62: inner->ref_count.fetch_add(1, relaxed)
ArcCopyAdd(t) ==
    /\ arc_pc[t] = "copy_add"
    /\ ref_count' = [ref_count EXCEPT ![inner[arc_op[t].dst]] = (@ + 1) % Word]
    /\ AccessAfterDelete(inner[arc_op[t].dst])
    /\ arc_status' = [arc_status EXCEPT ![arc_op[t].dst] = "live"]
    /\ arc_pc' = [arc_pc EXCEPT ![t] = "idle"]
    /\ arc_op' = [arc_op EXCEPT ![t] = NoArcOp]
    /\ UNCHANGED <<inner, arc_payload, arc_deletes, arc_made, arc_old,
                   arc_seen, arc_self, arcOthers>>

\* variant: the source keeps its pointer
ArcMoveConstruct_KeepsSource(t) ==
    /\ arc_pc[t] = "idle"
    /\ \E src \in OwnHandles(t) : \E dst \in FreeHandles :
          /\ inner' = [inner EXCEPT ![dst] = inner[src]]
          /\ arc_status' = [arc_status EXCEPT ![dst] = "live"]
    /\ UNCHANGED <<ref_count, arc_payload, arc_deletes, arc_made, arc_pc, arc_op,
                   arc_old, arc_seen, arc_uaf, arc_self, arcOthers>>

\* arc_ptr(arc_ptr&& other) : inner(other.inner) { other.inner = nullptr; }
ArcMoveConstruct(t) ==
    /\ arc_pc[t] = "idle"
    /\ \E src \in OwnHandles(t) : \E dst \in FreeHandles :
          /\ inner' = [inner EXCEPT ![dst] = inner[src], ![src] = 0]
          /\ arc_status' = [arc_status EXCEPT ![dst] = "live"]
    /\ UNCHANGED <<ref_count, arc_payload, arc_deletes, arc_made, arc_pc, arc_op,
                   arc_old, arc_seen, arc_uaf, arc_self, arcOthers>>

\* an operation of thread t that starts with release() on dst
ArcBeginRelease(t, kind, dst, src) ==
    /\ arc_pc[t] = "idle"
    /\ arc_op' = [arc_op EXCEPT ![t] = [kind |-> kind, dst |-> dst, src |-> src]]
    /\ arc_pc' = [arc_pc EXCEPT ![t] = "release"]
    /\ UNCHANGED <<inner, ref_count, arc_status, arc_payload, arc_deletes, arc_made,
                   arc_old, arc_seen, arc_uaf, arc_self, arcOthers>>

\* `if (this != &other)` is false: the assignment does nothing
ArcSelfAssign(t) ==
    /\ arc_pc[t] = "idle"
    /\ arc_self' = TRUE
    /\ UNCHANGED <<inner, ref_count, arc_status, arc_payload, arc_deletes, arc_made,
                   arc_pc, arc_op, arc_old, arc_seen, arc_uaf, arcOthers>>

\* variant: operator= without the test `this != &other`
ArcCopyAssign_NoSelfCheck(t) ==
    \E dst, src \in OwnHandles(t) : ArcBeginRelease(t, "copy_assign", dst, src)

\* arc_ptr& operator=(const arc_ptr& other)
ArcCopyAssign(t) ==
    \E dst, src \in OwnHandles(t) :
        IF dst # src
        THEN ArcBeginRelease(t, "copy_assign", dst, src)
        ELSE ArcSelfAssign(t)

\* arc_ptr& operator=(arc_ptr&& other)
ArcMoveAssign(t) ==
    \E dst, src \in OwnHandles(t) :
        IF dst # src
        THEN ArcBeginRelease(t, "move_assign", dst, src)
        ELSE ArcSelfAssign(t)

\* arc_ptr& operator=(std::nullptr_t)
ArcAssignNull(t) ==
    \E dst \in OwnHandles(t) : ArcBeginRelease(t, "null_assign", dst, dst)

\* ~arc_ptr()
ArcDestroy(t) ==
    \E dst \in OwnHandles(t) : ArcBeginRelease(t, "destroy", dst, dst)

\* What follows release() in the operation of thread t, on the pointers
\* `ptrs` that release() left: the rest of the assignment or destructor.
ArcAfterRelease(t, ptrs) ==
    LET kind == arc_op[t].kind
        dst == arc_op[t].dst
        src == arc_op[t].src
    IN  /\ inner' = IF kind = "copy_assign" THEN [ptrs EXCEPT ![dst] = ptrs[src]]
                    ELSE IF kind = "move_assign"
                    THEN [ptrs EXCEPT ![dst] = ptrs[src], ![src] = 0]
                    ELSE ptrs
        /\ arc_pc' = [arc_pc EXCEPT ![t] =
                        IF kind = "copy_assign" /\ ptrs[src] # 0
                        THEN "copy_add" ELSE "idle"]
        /\ arc_op' = IF kind = "copy_assign" /\ ptrs[src] # 0
                     THEN arc_op ELSE [arc_op EXCEPT ![t] = NoArcOp]
        /\ arc_old' = [arc_old EXCEPT ![t] = 0]
        /\ arc_status' = IF kind = "destroy"
                         THEN [arc_status EXCEPT ![dst] = "none"]
                         ELSE arc_status

\* part_006 117-118: if (inner) ... ref_count.fetch_sub(1, acq_rel)
ArcReleaseSub(t) ==
    /\ arc_pc[t] = "release"
    /\ IF inner[arc_op[t].dst] = 0
       THEN /\ ArcAfterRelease(t, inner)
            /\ UNCHANGED <<ref_count, arc_uaf>>
       ELSE /\ arc_old' = [arc_old EXCEPT ![t] = ref_count[inner[arc_op[t].dst]]]
            /\ ref_count' = [ref_count EXCEPT ![inner[arc_op[t].dst]] = (@ + Word - 1) % Word]
            /\ AccessAfterDelete(inner[arc_op[t].dst])
            /\ arc_pc' = [arc_pc EXCEPT ![t] = "release_delete"]
            /\ UNCHANGED <<inner, arc_status, arc_op>>
    /\ UNCHANGED <<arc_payload, arc_deletes, arc_made, arc_seen, arc_self, arcOthers>>

\* variant: the payload is deleted by whoever saw the count 2
ArcReleaseDelete_AtTwo(t) ==
    /\ arc_pc[t] = "release_delete"
    /\ IF arc_old[t] = 2
       THEN /\ arc_payload' = [arc_payload EXCEPT ![inner[arc_op[t].dst]] = "deleted"]
            /\ arc_deletes' = [arc_deletes EXCEPT ![inner[arc_op[t].dst]] = @ + 1]
            /\ AccessAfterDelete(inner[arc_op[t].dst])
       ELSE UNCHANGED <<arc_payload, arc_deletes, arc_uaf>>
    /\ ArcAfterRelease(t, [inner EXCEPT ![arc_op[t].dst] = 0])
    /\ UNCHANGED <<ref_count, arc_made, arc_seen, arc_self, arcOthers>>

\* part_006 118-121: if the old count was 1, delete inner; inner = nullptr
ArcReleaseDelete(t) ==
    /\ arc_pc[t] = "release_delete"
    /\ IF arc_old[t] = 1
       THEN /\ arc_payload' = [arc_payload EXCEPT ![inner[arc_op[t].dst]] = "deleted"]
            /\ arc_deletes' = [arc_deletes EXCEPT ![inner[arc_op[t].dst]] = @ + 1]
            /\ AccessAfterDelete(inner[arc_op[t].dst])
       ELSE UNCHANGED <<arc_payload, arc_deletes, arc_uaf>>
    /\ ArcAfterRelease(t, [inner EXCEPT ![arc_op[t].dst] = 0])
    /\ UNCHANGED <<ref_count, arc_made, arc_seen, arc_self, arcOthers>>

\* the arc_ptr objects that are counted in the ref_count of payload p: the
\* ones that point to p, except a copy whose fetch_add is still to come
\* and an object whose release() has already done its fetch_sub
Holders(p) ==
    {h \in ArcHandles :
        /\ inner[h] = p
        /\ ~\E t \in ArcThreads :
              arc_op[t].dst = h /\ arc_pc[t] \in {"copy_add", "release_delete"}}

\* use_count(): inner ? inner->ref_count.load(relaxed) : 0
ArcUseCount(t) ==
    /\ arc_pc[t] = "idle"
    /\ \E h \in OwnHandles(t) :
          IF inner[h] = 0
          THEN /\ arc_seen' = [value |-> 0, holders |-> 0]
               /\ UNCHANGED arc_uaf
          ELSE /\ arc_seen' = [value |-> ref_count[inner[h]],
                                holders |-> Cardinality(Holders(inner[h]))]
               /\ AccessAfterDelete(inner[h])
    /\ UNCHANGED <<inner, ref_count, arc_status, arc_payload, arc_deletes, arc_made,
                   arc_pc, arc_op, arc_old, arc_self, arcOthers>>

ArcNext ==
    \/ \E t \in ArcThreads : ArcMake(t)
    \/ \E t \in ArcThreads : ArcCopyConstruct(t)
    \/ \E t \in ArcThreads : ArcCopyAdd(t)
    \/ \E t \in ArcThreads : ArcMoveConstruct(t)
    \/ \E t \in ArcThreads : ArcCopyAssign(t)
    \/ \E t \in ArcThreads : ArcMoveAssign(t)
    \/ \E t \in ArcThreads : ArcAssignNull(t)
    \/ \E t \in ArcThreads : ArcDestroy(t)
    \/ \E t \in ArcThreads : ArcReleaseSub(t)
    \/ \E t \in ArcThreads : ArcReleaseDelete(t)
    \/ \E t \in ArcThreads : ArcUseCount(t)

\* the arc_ptr program uses no channel
ArcClientInit ==
    /\ Init
    /\ requested = 0

ArcSpec == ArcClientInit /\ [][ArcNext]_vars

\* ==================================================== one-shot, flag
\* The second channels::oneshot implementation of oneshot.hpp (261-457):
\* T is allocated apart, isReady_ is the only atomic, isSentCache_ belongs
\* to the sender thread and isReceivedCache_ to the receiver thread.
\* Wait is the default WaitStrategy::BUSY_LOOP, so send() has no notify.

\* Sender::send(value) is called
FlagStartSend ==
    /\ fl_spc = "idle"
    /\ fl_alive
    /\ fl_sends < MaxCalls
    /\ \E v \in 1 .. MaxValue : fl_svalue' = <<v>>
    /\ fl_spc' = "send_check"
    /\ fl_sres' = NoStatus
    /\ fl_sends' = fl_sends + 1
    /\ fl_sCall' = [closedBefore |-> isSentCache_, built |-> fl_built]
    /\ UNCHANGED <<fl_value_, isSentCache_, isReceivedCache_, isReady_, flagRecvVars,
                   fl_alive, fl_built, fl_destructs, fl_frees, fl_sent, fl_sclosed,
                   flagOthers>>

\* if (isSentCache_) return SENDER_CLOSED;
FlagSendCheck ==
    /\ fl_spc = "send_check"
    /\ IF isSentCache_
       THEN fl_spc' = "idle" /\ fl_sres' = SENDER_CLOSED /\ fl_svalue' = <<>>
       ELSE fl_spc' = "send_construct" /\ UNCHANGED <<fl_sres, fl_svalue>>
    /\ UNCHANGED <<fl_value_, isSentCache_, isReceivedCache_, isReady_, fl_sends,
                   flagRecvVars, flagLifeVars, flagOthers>>

\* variant: send leaves isSentCache_ as it is
FlagSendConstruct_NoCache ==
    /\ fl_spc = "send_construct"
    /\ fl_value_' = [fl_value_ EXCEPT !.obj = fl_svalue]
    /\ fl_built' = fl_built + 1
    /\ fl_spc' = "send_store"
    /\ UNCHANGED <<isSentCache_, isReceivedCache_, isReady_, fl_svalue, fl_sres,
                   fl_sends, flagRecvVars, fl_alive, fl_destructs, fl_frees, fl_sent,
                   fl_sCall, fl_sclosed, flagOthers>>

\* new (value_) T(std::forward<U>(value)); isSentCache_ = true;
FlagSendConstruct ==
    /\ fl_spc = "send_construct"
    /\ fl_value_' = [fl_value_ EXCEPT !.obj = fl_svalue]
    /\ isSentCache_' = TRUE
    /\ fl_built' = fl_built + 1
    /\ fl_spc' = "send_store"
    /\ UNCHANGED <<isReceivedCache_, isReady_, fl_svalue, fl_sres, fl_sends,
                   flagRecvVars, fl_alive, fl_destructs, fl_frees, fl_sent, fl_sCall,
                   fl_sclosed, flagOthers>>

\* isReady_.store(true, release); return SUCCESS;
FlagSendStore ==
    /\ fl_spc = "send_store"
    /\ isReady_' = TRUE
    /\ fl_spc' = "idle"
    /\ fl_sres' = SUCCESS
    /\ fl_svalue' = <<>>
    /\ fl_sent' = fl_sent + 1
    /\ UNCHANGED <<fl_value_, isSentCache_, isReceivedCache_, fl_sends, flagRecvVars,
                   fl_alive, fl_built, fl_destructs, fl_frees, fl_sCall, fl_sclosed,
                   flagOthers>>

\* Receiver::try_receive(value) is called
FlagStartTryReceive ==
    /\ fl_rpc = "idle"
    /\ fl_alive
    /\ fl_recvs < MaxCalls
    /\ fl_rpc' = "try_check"
    /\ fl_rres' = NoStatus
    /\ fl_rCall' = [afterSuccess |-> fl_successes > 0, accessed |-> FALSE]
    /\ fl_recvs' = fl_recvs + 1
    /\ UNCHANGED <<flagInnerVars, flagSendVars, fl_out, fl_closed, fl_successes,
                   fl_nullDeref, flagLifeVars, flagOthers>>

\* if (isReceivedCache_) return RECEIVER_CLOSED;
\* if (!isReady_.load(acquire)) return CHANNEL_EMPTY;
FlagTryReceiveCheck ==
    /\ fl_rpc = "try_check"
    /\ IF isReceivedCache_
       THEN fl_rpc' = "idle" /\ fl_rres' = RECEIVER_CLOSED
       ELSE IF ~isReady_
            THEN fl_rpc' = "idle" /\ fl_rres' = CHANNEL_EMPTY
            ELSE fl_rpc' = "try_move" /\ fl_rres' = fl_rres
    /\ UNCHANGED <<flagInnerVars, flagSendVars, fl_out, fl_rCall, fl_closed, fl_recvs,
                   fl_successes, fl_nullDeref, flagLifeVars, flagOthers>>

\* value = std::move(*value_);  With value_ == nullptr this is undefined:
\* the call faults, or it goes on with whatever it read.
FlagTryReceiveMove ==
    /\ fl_rpc = "try_move"
    /\ fl_rCall' = [fl_rCall EXCEPT !.accessed = TRUE]
    /\ IF fl_value_.null
       THEN /\ fl_nullDeref' = TRUE
            /\ \/ fl_rpc' = "faulted" /\ fl_out' = fl_out
               \/ fl_rpc' = "try_delete" /\ \E v \in 1 .. MaxValue : fl_out' = <<v>>
       ELSE /\ fl_out' = fl_value_.obj
            /\ fl_rpc' = "try_delete"
            /\ UNCHANGED fl_nullDeref
    /\ UNCHANGED <<flagInnerVars, flagSendVars, fl_rres, fl_closed, fl_recvs,
                   fl_successes, flagLifeVars, flagOthers>>

\* delete value_; value_ = nullptr; return SUCCESS;
\* delete destructs the T and releases the storage; on nullptr it does
\* nothing
FlagTryReceiveDelete ==
    /\ fl_rpc = "try_delete"
    /\ fl_value_' = [null |-> TRUE, obj |-> <<>>]
    /\ fl_destructs' = IF fl_value_.null THEN fl_destructs ELSE fl_destructs + 1
    /\ fl_frees' = IF fl_value_.null THEN fl_frees ELSE fl_frees + 1
    /\ fl_rpc' = "idle"
    /\ fl_rres' = SUCCESS
    /\ fl_successes' = fl_successes + 1
    /\ UNCHANGED <<isSentCache_, isReceivedCache_, isReady_, flagSendVars, fl_out,
                   fl_rCall, fl_closed, fl_recvs, fl_nullDeref, fl_alive, fl_built,
                   fl_sent, fl_sCall, fl_sclosed, flagOthers>>

\* Receiver::is_closed(): return channel_->isReceivedCache_;
FlagIsClosed ==
    /\ fl_rpc = "idle"
    /\ fl_alive
    /\ fl_closed' = [value |-> isReceivedCache_, received |-> fl_successes > 0]
    /\ UNCHANGED <<flagInnerVars, flagSendVars, fl_rpc, fl_out, fl_rres, fl_rCall,
                   fl_recvs, fl_successes, fl_nullDeref, flagLifeVars, flagOthers>>

\* Sender::is_closed(): return channel_->isSentCache_;
FlagSenderIsClosed ==
    /\ fl_spc = "idle"
    /\ fl_alive
    /\ fl_sclosed' = [value |-> isSentCache_, sent |-> fl_sent > 0]
    /\ UNCHANGED <<flagInnerVars, flagSendVars, flagRecvVars, fl_alive, fl_built,
                   fl_destructs, fl_frees, fl_sent, fl_sCall, flagOthers>>

\* Both handles are gone (each dropped by its thread between two calls):
\* the last shared_ptr destroys the InnerChannel.  The class declares no
\* destructor, so nothing is done with value_.
FlagChannelDestroy ==
    /\ fl_spc = "idle" /\ fl_rpc = "idle"
    /\ fl_alive
    /\ fl_alive' = FALSE
    /\ UNCHANGED <<flagInnerVars, flagSendVars, flagRecvVars, fl_built, fl_destructs,
                   fl_frees, fl_sent, fl_sCall, fl_sclosed, flagOthers>>

FlagNext ==
    \/ FlagStartSend
    \/ FlagSendCheck
    \/ FlagSendConstruct
    \/ FlagSendStore
    \/ FlagStartTryReceive
    \/ FlagTryReceiveCheck
    \/ FlagTryReceiveMove
    \/ FlagTryReceiveDelete
    \/ FlagIsClosed
    \/ FlagSenderIsClosed
    \/ FlagChannelDestroy

\* the program uses only this channel
FlagClientInit ==
    /\ Init
    /\ requested = 0

FlagSpec == FlagClientInit /\ [][FlagNext]_vars

\* ------------------------------------- next_power_of_2, step by step
\* next_power_of_2(n) is called with any n of the word
NextPowerCall ==
    /\ np_pc = "idle"
    /\ \E n \in 0 .. (Word - 1) : np_n' = n
    /\ np_pc' = "entry"
    /\ UNCHANGED <<np_power, np_result, powOthers>>

\* if (n <= 1) return 1;  size_t power = 1;
NextPowerEntry ==
    /\ np_pc = "entry"
    /\ IF np_n <= 1
       THEN np_pc' = "done" /\ np_result' = <<1>> /\ np_power' = np_power
       ELSE np_pc' = "loop" /\ np_power' = 1 /\ np_result' = np_result
    /\ UNCHANGED <<np_n, powOthers>>

\* while (power <= n) power <<= 1;   the shift drops the bit that leaves
\* the word
NextPowerShift ==
    /\ np_pc = "loop"
    /\ np_power <= np_n
    /\ np_power' = (np_power * 2) % Word
    /\ UNCHANGED <<np_pc, np_n, np_result, powOthers>>

\* the loop test fails: return power;
NextPowerReturn ==
    /\ np_pc = "loop"
    /\ np_power > np_n
    /\ np_pc' = "done"
    /\ np_result' = <<np_power>>
    /\ UNCHANGED <<np_n, np_power, powOthers>>

\* With power == 0 the loop never ends and has no side effect, which the
\* language leaves undefined: the build may spin for ever (NextPowerShift
\* keeps power at 0) or may have dropped the test and return some word.
NextPowerAssumedExit ==
    /\ np_pc = "loop"
    /\ np_power = 0
    /\ np_pc' = "done"
    /\ \E r \in 0 .. (Word - 1) : np_result' = <<r>>
    /\ UNCHANGED <<np_n, np_power, powOthers>>

PowNext ==
    \/ NextPowerCall
    \/ NextPowerEntry
    \/ NextPowerShift
    \/ NextPowerReturn
    \/ NextPowerAssumedExit

PowClientInit ==
    /\ Init
    /\ requested = 0

\* the thread that runs the call is scheduled; nothing obliges the build
\* to leave a loop the language leaves undefined
PowSpec ==
    /\ PowClientInit
    /\ [][PowNext]_vars
    /\ WF_vars(NextPowerCall)
    /\ WF_vars(NextPowerEntry)
    /\ WF_vars(NextPowerShift)
    /\ WF_vars(NextPowerReturn)

\* ========================================================= spsc_mutex
\* spsc_mutex(size_t capacity) : capacity(capacity) { buffer = new T[capacity]; }
SpscMutexConstruct ==
    /\ ~mx_built
    /\ mx_built' = TRUE
    /\ \E c \in 0 .. MaxQueue :
          /\ mx_capacity' = c
          /\ mx_buffer' = [i \in 0 .. (c - 1) |-> <<>>]
    /\ UNCHANGED <<mx_size, write_index, read_index, mtx, mxWriterVars, mxReaderVars,
                   mx_written, mx_read, mxOthers>>

\* write(value) is called
StartWrite ==
    /\ mx_built
    /\ mx_wpc = "idle"
    /\ Len(mx_written) < MaxWrites
    /\ \E v \in 1 .. MaxValue : mx_wvalue' = <<v>>
    /\ mx_wpc' = "w_trylock"
    /\ mx_wres' = NoResult
    /\ UNCHANGED <<mx_built, mxQueueVars, mtx, mxReaderVars, mx_written, mx_read,
                   mxOthers>>

\* if (mtx.try_lock()) ... return false;  try_lock fails when the reader
\* holds the mutex, and std::mutex::try_lock may also fail on a free mutex
WriteTryLock ==
    /\ mx_wpc = "w_trylock"
    /\ \/ /\ mtx = "free"
          /\ mtx' = "writer"
          /\ mx_wpc' = "w_check"
          /\ mx_wres' = mx_wres
       \/ /\ mtx' = mtx
          /\ mx_wpc' = "idle"
          /\ mx_wres' = [ret |-> "false",
                         why |-> IF mtx = "free" THEN "spurious" ELSE "held"]
    /\ UNCHANGED <<mx_built, mxQueueVars, mx_wvalue, mxReaderVars, mx_written, mx_read,
                   mxOthers>>

\* if (size == capacity) { mtx.unlock(); return false; }
WriteCheck ==
    /\ mx_wpc = "w_check"
    /\ IF mx_size = mx_capacity
       THEN /\ mtx' = "free"
            /\ mx_wpc' = "idle"
            /\ mx_wres' = [ret |-> "false", why |-> "full"]
       ELSE /\ mx_wpc' = "w_store"
            /\ UNCHANGED <<mtx, mx_wres>>
    /\ UNCHANGED <<mx_built, mxQueueVars, mx_wvalue, mxReaderVars, mx_written, mx_read,
                   mxOthers>>

\* buffer[write_index] = value;
WriteStore ==
    /\ mx_wpc = "w_store"
    /\ mx_buffer' = [mx_buffer EXCEPT ![write_index] = mx_wvalue]
    /\ mx_written' = Append(mx_written, mx_wvalue[1])
    /\ mx_wpc' = "w_index"
    /\ UNCHANGED <<mx_built, mx_capacity, mx_size, write_index, read_index, mtx,
                   mx_wvalue, mx_wres, mxReaderVars, mx_read, mxOthers>>

\* write_index = (write_index + 1) % capacity;
WriteIndex ==
    /\ mx_wpc = "w_index"
    /\ write_index' = (write_index + 1) % mx_capacity
    /\ mx_wpc' = "w_size"
    /\ UNCHANGED <<mx_built, mx_capacity, mx_buffer, mx_size, read_index, mtx,
                   mx_wvalue, mx_wres, mxReaderVars, mx_written, mx_read, mxOthers>>

\* variant: write() leaves size as it is
WriteSize_NoIncrement ==
    /\ mx_wpc = "w_size"
    /\ mx_wpc' = "w_unlock"
    /\ UNCHANGED <<mx_built, mxQueueVars, mtx, mx_wvalue, mx_wres, mxReaderVars,
                   mx_written, mx_read, mxOthers>>

\* size++;
WriteSize ==
    /\ mx_wpc = "w_size"
    /\ mx_size' = (mx_size + 1) % Word
    /\ mx_wpc' = "w_unlock"
    /\ UNCHANGED <<mx_built, mx_capacity, mx_buffer, write_index, read_index, mtx,
                   mx_wvalue, mx_wres, mxReaderVars, mx_written, mx_read, mxOthers>>

\* mtx.unlock(); return true;
WriteUnlock ==
    /\ mx_wpc = "w_unlock"
    /\ mtx' = "free"
    /\ mx_wpc' = "idle"
    /\ mx_wres' = [ret |-> "true", why |-> "none"]
    /\ UNCHANGED <<mx_built, mxQueueVars, mx_wvalue, mxReaderVars, mx_written, mx_read,
                   mxOthers>>

\* read(value) is called
StartRead ==
    /\ mx_built
    /\ mx_rpc = "idle"
    /\ mx_rpc' = "r_trylock"
    /\ mx_rres' = NoResult
    /\ UNCHANGED <<mx_built, mxQueueVars, mtx, mx_rvalue, mxWriterVars, mx_written,
                   mx_read, mxOthers>>

\* if (mtx.try_lock()) ... return false;
ReadTryLock ==
    /\ mx_rpc = "r_trylock"
    /\ \/ /\ mtx = "free"
          /\ mtx' = "reader"
          /\ mx_rpc' = "r_check"
          /\ mx_rres' = mx_rres
       \/ /\ mtx' = mtx
          /\ mx_rpc' = "idle"
          /\ mx_rres' = [ret |-> "false",
                         why |-> IF mtx = "free" THEN "spurious" ELSE "held"]
    /\ UNCHANGED <<mx_built, mxQueueVars, mx_rvalue, mxWriterVars, mx_written, mx_read,
                   mxOthers>>

\* if (size > 0) ... else mtx.unlock(); return false;
ReadCheck ==
    /\ mx_rpc = "r_check"
    /\ IF mx_size > 0
       THEN /\ mx_rpc' = "r_load"
            /\ UNCHANGED <<mtx, mx_rres>>
       ELSE /\ mtx' = "free"
            /\ mx_rpc' = "idle"
            /\ mx_rres' = [ret |-> "false", why |-> "empty"]
    /\ UNCHANGED <<mx_built, mxQueueVars, mx_rvalue, mxWriterVars, mx_written, mx_read,
                   mxOthers>>

\* value = buffer[read_index];
ReadLoad ==
    /\ mx_rpc = "r_load"
    /\ mx_rvalue' = mx_buffer[read_index]
    /\ mx_read' = mx_read \o mx_buffer[read_index]
    /\ mx_rpc' = "r_index"
    /\ UNCHANGED <<mx_built, mxQueueVars, mtx, mx_rres, mxWriterVars, mx_written,
                   mxOthers>>

\* read_index = (read_index + 1) % capacity;
ReadIndex ==
    /\ mx_rpc = "r_index"
    /\ read_index' = (read_index + 1) % mx_capacity
    /\ mx_rpc' = "r_size"
    /\ UNCHANGED <<mx_built, mx_capacity, mx_buffer, mx_size, write_index, mtx,
                   mx_rvalue, mx_rres, mxWriterVars, mx_written, mx_read, mxOthers>>

\* size--;
ReadSize ==
    /\ mx_rpc = "r_size"
    /\ mx_size' = (mx_size + Word - 1) % Word
    /\ mx_rpc' = "r_unlock"
    /\ UNCHANGED <<mx_built, mx_capacity, mx_buffer, write_index, read_index, mtx,
                   mx_rvalue, mx_rres, mxWriterVars, mx_written, mx_read, mxOthers>>

\* mtx.unlock(); return true;
ReadUnlock ==
    /\ mx_rpc = "r_unlock"
    /\ mtx' = "free"
    /\ mx_rpc' = "idle"
    /\ mx_rres' = [ret |-> "true", why |-> "none"]
    /\ UNCHANGED <<mx_built, mxQueueVars, mx_rvalue, mxWriterVars, mx_written, mx_read,
                   mxOthers>>

MutexNext ==
    \/ SpscMutexConstruct
    \/ StartWrite
    \/ WriteTryLock
    \/ WriteCheck
    \/ WriteStore
    \/ WriteIndex
    \/ WriteSize
    \/ WriteUnlock
    \/ StartRead
    \/ ReadTryLock
    \/ ReadCheck
    \/ ReadLoad
    \/ ReadIndex
    \/ ReadSize
    \/ ReadUnlock

MutexClientInit ==
    /\ Init
    /\ requested = 0

MutexSpec == MutexClientInit /\ [][MutexNext]_vars

\* ------------------------------------------- example_simple (scripted)
\* producer: for (i = 0; i < N; ++i) sender.send(i);
\* consumer: for (i = 0; i < N; ++i) value = receiver.receive();
ExampleInit ==
    /\ RingInit
    /\ ThreadsInit
    /\ LifeInit
    /\ OneshotInit
    /\ ExtInit
    /\ N \in 0 .. MaxSent
    /\ p_i = 0
    /\ c_i = 0

ExampleSend ==
    /\ p_i < N
    /\ BeginProducerCall("send", "copy", <<p_i>>)
    /\ p_i' = p_i + 1
    /\ UNCHANGED <<N, c_i>>

ExampleReceive ==
    /\ c_i < N
    /\ BeginConsumerCall("receive", <<>>)
    /\ c_i' = c_i + 1
    /\ UNCHANGED <<N, p_i>>

ExampleProducer == ExampleSend \/ ProducerStep
ExampleConsumer == ExampleReceive \/ ConsumerStep

ExampleNext ==
    \/ ExampleSend
    \/ TrySendLoad
    \/ TrySendRefresh
    \/ TrySendConstruct
    \/ TrySendStore
    \/ SendWait
    \/ ExampleReceive
    \/ TryReceiveLoad
    \/ TryReceiveRefresh
    \/ TryReceiveMove
    \/ TryReceiveDestroy
    \/ TryReceiveStore
    \/ ReceiveWait

\* both threads are scheduled fairly
ExampleSpec ==
    /\ ExampleInit
    /\ [][ExampleNext]_vars
    /\ WF_vars(ExampleProducer)
    /\ WF_vars(ExampleConsumer)

\* ---------------------------------------- AtomicWait (example_atomicwait)
\* channel<int, WAIT_ON_FULL, WaitStrategy::ATOMIC_WAIT>: the wait strategy
\* is a template parameter, so this program has other steps where the
\* blocking calls wait and after the release stores (spec 4.3, Blocking
\* send / receive): a thread parks on the peer's cursor with the value it
\* saw in its failed try, and each side notifies after its release store.
\* std::atomic::wait compares and blocks in one step; a parked thread goes
\* back to the comparison when it is notified or woken spuriously.

\* try_send step 5, followed by the notify
TrySendStoreAtomicWait ==
    /\ ppc = "ts_store"
    /\ sendCursor_' = next_sendCursor
    /\ sent' = Append(sent, pCall.value)
    /\ ppc' = "ts_notify"
    /\ pSteps' = pSteps + 1
    /\ UNCHANGED <<requested, capacity_, capacity_mask_, buffer_, rcvCursorCache_,
                   rcvCursor_, sendCursorCache_, consVars, drvVars, received,
                   constructions, destructions, pCall, cCall, cSteps, pop, overload,
                   pvalue, sendCursor, next_sendCursor, pres, pHalted>>
    /\ UNCHANGED <<lifeVars, oneVars, extVars>>

\* variant: the notify reaches nobody
TrySendNotify_Lost ==
    /\ ppc = "ts_notify"
    /\ SenderReturn(SUCCESS)
    /\ pSteps' = pSteps + 1
    /\ UNCHANGED <<ringVars, consVars, drvVars, sent, received, constructions,
                   destructions, pCall, cCall, cSteps, pop, overload, pvalue,
                   sendCursor, next_sendCursor, pHalted>>
    /\ UNCHANGED <<lifeVars, oneVars, extVars>>

\* the producer notifies the send cursor: a consumer parked on it wakes
TrySendNotify ==
    /\ ppc = "ts_notify"
    /\ cpc' = IF cpc = "recv_parked" THEN "recv_wait" ELSE cpc
    /\ SenderReturn(SUCCESS)
    /\ pSteps' = pSteps + 1
    /\ UNCHANGED <<ringVars, drvVars, sent, received, constructions, destructions,
                   pCall, cCall, cSteps, pop, overload, pvalue, sendCursor,
                   next_sendCursor, pHalted, cop, rcvCursor, cvalue, cres>>
    /\ UNCHANGED <<lifeVars, oneVars, extVars>>

\* blocking send after CHANNEL_FULL: wait on the receive cursor while it
\* has the value seen in the try, then retry
SendAtomicWait ==
    /\ ppc = "send_wait"
    /\ IF rcvCursor_ # rcvCursorCache_
       THEN ppc' = "ts_load" /\ pSteps' = 0 /\ pCall' = pCall
       ELSE ppc' = "send_parked" /\ pSteps' = pSteps
            /\ pCall' = [pCall EXCEPT !.waited = TRUE]
    /\ UNCHANGED <<ringVars, consVars, drvVars, sent, received, constructions,
                   destructions, cCall, cSteps, pop, overload, pvalue,
                   sendCursor, next_sendCursor, pres, pHalted>>
    /\ UNCHANGED <<lifeVars, oneVars, extVars>>

\* a parked producer wakes without a notify
SendSpuriousWake ==
    /\ ppc = "send_parked"
    /\ ppc' = "send_wait"
    /\ UNCHANGED <<ringVars, consVars, histVars, drvVars, pop, overload, pvalue,
                   sendCursor, next_sendCursor, pres, pHalted>>
    /\ UNCHANGED <<lifeVars, oneVars, extVars>>

\* try_receive step 4, followed by the notify
TryReceiveStoreAtomicWait ==
    /\ cpc = "tr_store"
    /\ rcvCursor_' = BitAnd(rcvCursor + 1, capacity_mask_)
    /\ received' = Append(received, cvalue)
    /\ cpc' = "tr_notify"
    /\ cSteps' = cSteps + 1
    /\ UNCHANGED <<requested, capacity_, capacity_mask_, buffer_, sendCursor_,
                   rcvCursorCache_, sendCursorCache_, prodVars, drvVars, sent,
                   constructions, destructions, pCall, cCall, pSteps, cop, rcvCursor,
                   cvalue, cres>>
    /\ UNCHANGED <<lifeVars, oneVars, extVars>>

\* the consumer notifies the receive cursor: a producer parked on it wakes
TryReceiveNotify ==
    /\ cpc = "tr_notify"
    /\ ppc' = IF ppc = "send_parked" THEN "send_wait" ELSE ppc
    /\ ReceiverReturn(SUCCESS)
    /\ cSteps' = cSteps + 1
    /\ UNCHANGED <<ringVars, drvVars, sent, received, constructions, destructions,
                   pCall, cCall, pSteps, cop, rcvCursor, cvalue, pop, overload,
                   pvalue, sendCursor, next_sendCursor, pres, pHalted>>
    /\ UNCHANGED <<lifeVars, oneVars, extVars>>

\* blocking receive after CHANNEL_EMPTY: wait on the send cursor while it
\* has the value seen in the try, then retry
ReceiveAtomicWait ==
    /\ cpc = "recv_wait"
    /\ IF sendCursor_ # sendCursorCache_
       THEN cpc' = "tr_load" /\ cSteps' = 0 /\ cCall' = cCall
       ELSE cpc' = "recv_parked" /\ cSteps' = cSteps
            /\ cCall' = [cCall EXCEPT !.waited = TRUE]
    /\ UNCHANGED <<ringVars, prodVars, drvVars, sent, received, constructions,
                   destructions, pCall, pSteps, cop, rcvCursor, cvalue, cres>>
    /\ UNCHANGED <<lifeVars, oneVars, extVars>>

\* a parked consumer wakes without a notify
ReceiveSpuriousWake ==
    /\ cpc = "recv_parked"
    /\ cpc' = "recv_wait"
    /\ UNCHANGED <<ringVars, prodVars, histVars, drvVars, cop, rcvCursor, cvalue,
                   cres>>
    /\ UNCHANGED <<lifeVars, oneVars, extVars>>

AtomicWaitProducer ==
    \/ ExampleSend
    \/ TrySendLoad
    \/ TrySendRefresh
    \/ TrySendConstruct
    \/ TrySendStoreAtomicWait
    \/ TrySendNotify
    \/ SendAtomicWait

AtomicWaitConsumer ==
    \/ ExampleReceive
    \/ TryReceiveLoad
    \/ TryReceiveRefresh
    \/ TryReceiveMove
    \/ TryReceiveDestroy
    \/ TryReceiveStoreAtomicWait
    \/ TryReceiveNotify
    \/ ReceiveAtomicWait

AtomicWaitNext ==
    \/ ExampleSend
    \/ TrySendLoad
    \/ TrySendRefresh
    \/ TrySendConstruct
    \/ TrySendStoreAtomicWait
    \/ TrySendNotify
    \/ SendAtomicWait
    \/ SendSpuriousWake
    \/ ExampleReceive
    \/ TryReceiveLoad
    \/ TryReceiveRefresh
    \/ TryReceiveMove
    \/ TryReceiveDestroy
    \/ TryReceiveStoreAtomicWait
    \/ TryReceiveNotify
    \/ ReceiveAtomicWait
    \/ ReceiveSpuriousWake

\* both threads are scheduled fairly; nothing promises a spurious wake
AtomicWaitSpec ==
    /\ ExampleInit
    /\ [][AtomicWaitNext]_vars
    /\ WF_vars(AtomicWaitProducer)
    /\ WF_vars(AtomicWaitConsumer)

\* ------------------------------------ OverwriteOnFull (example_overflowable)
\* channel<int, OverflowStrategy::OVERWRITE_ON_FULL>: the policy is a
\* template parameter, so this program has other steps on a full ring,
\* the overwrite step of spec 4.3.  The producer sends N values; the
\* consumer starts after the producer's last send has returned and calls
\* try_receive until it gets CHANNEL_EMPTY.

\* try_send step 3 under OverwriteOnFull: refresh the cache; still equal
\* => the ring is full, go on with the overwrite step
TrySendRefreshOverwrite ==
    /\ ppc = "ts_refresh"
    /\ rcvCursorCache_' = rcvCursor_
    /\ ppc' = IF next_sendCursor = rcvCursor_ THEN "ts_overwrite" ELSE "ts_construct"
    /\ pSteps' = pSteps + 1
    /\ UNCHANGED <<requested, capacity_, capacity_mask_, buffer_, sendCursor_,
                   rcvCursor_, sendCursorCache_, consVars, drvVars, sent, received,
                   constructions, destructions, pCall, cCall, cSteps, pop, overload,
                   pvalue, sendCursor, next_sendCursor, pres, pHalted>>
    /\ UNCHANGED <<lifeVars, oneVars, extVars>>

\* overwrite step: destruct the element at the receive cursor
TrySendOverwriteDestroy ==
    /\ ppc = "ts_overwrite"
    /\ buffer_' = [buffer_ EXCEPT ![next_sendCursor] = <<>>]
    /\ destructions' = destructions + 1
    /\ ppc' = "ts_advance"
    /\ pSteps' = pSteps + 1
    /\ UNCHANGED <<requested, capacity_, capacity_mask_, sendCursor_, rcvCursorCache_,
                   rcvCursor_, sendCursorCache_, consVars, drvVars, sent, received,
                   constructions, pCall, cCall, cSteps, pop, overload, pvalue,
                   sendCursor, next_sendCursor, pres, pHalted>>
    /\ UNCHANGED <<lifeVars, oneVars, extVars>>

\* variant: the producer leaves the receive cursor where it is
TrySendOverwriteStore_KeepsCursor ==
    /\ ppc = "ts_advance"
    /\ ppc' = "ts_construct"
    /\ pSteps' = pSteps + 1
    /\ UNCHANGED <<ringVars, consVars, drvVars, sent, received, constructions,
                   destructions, pCall, cCall, cSteps, pop, overload, pvalue,
                   sendCursor, next_sendCursor, pres, pHalted>>
    /\ UNCHANGED <<lifeVars, oneVars, extVars>>

\* overwrite step: release store of the receive cursor advanced by one;
\* the producer goes on to construct with the cursor it has just written
TrySendOverwriteStore ==
    /\ ppc = "ts_advance"
    /\ rcvCursor_' = next_index(next_sendCursor)
    /\ rcvCursorCache_' = next_index(next_sendCursor)
    /\ ppc' = "ts_construct"
    /\ pSteps' = pSteps + 1
    /\ UNCHANGED <<requested, capacity_, capacity_mask_, buffer_, sendCursor_,
                   sendCursorCache_, consVars, drvVars, sent, received,
                   constructions, destructions, pCall, cCall, cSteps, pop, overload,
                   pvalue, sendCursor, next_sendCursor, pres, pHalted>>
    /\ UNCHANGED <<lifeVars, oneVars, extVars>>

\* producer: for (int i = 0; i < N; ++i) sender.send(i);
OverflowSend ==
    /\ p_i < N
    /\ BeginProducerCall("send", "copy", <<p_i>>)
    /\ p_i' = p_i + 1
    /\ UNCHANGED <<N, c_i>>

\* consumer: while (receiver.try_receive(value) != CHANNEL_EMPTY) ...;
\* c_i counts its calls
OverflowDrain ==
    /\ p_i = N /\ ppc = "idle"
    /\ cres # CHANNEL_EMPTY
    /\ BeginConsumerCall("try_receive", cvalue)
    /\ c_i' = c_i + 1
    /\ UNCHANGED <<N, p_i>>

OverflowNext ==
    \/ OverflowSend
    \/ TrySendLoad
    \/ TrySendRefreshOverwrite
    \/ TrySendOverwriteDestroy
    \/ TrySendOverwriteStore
    \/ TrySendConstruct
    \/ TrySendStore
    \/ OverflowDrain
    \/ TryReceiveLoad
    \/ TryReceiveRefresh
    \/ TryReceiveMove
    \/ TryReceiveDestroy
    \/ TryReceiveStore

OverflowSpec == ExampleInit /\ [][OverflowNext]_vars

\* ================================================================ claims
InFlight == Len(sent) - Len(received)

\* C1: SPSC FIFO.  In every reachable state of any interleaving of the
\* producer's try_send/send with the consumer's try_receive/receive, the
\* sequence of values returned by successful receives is a prefix of the
\* sequence of values accepted by successful sends.
C1_Fifo ==
    /\ Len(received) <= Len(sent)
    /\ \A k \in 1 .. Len(received) : received[k] = sent[k]

\* C1 witness: all MaxSent messages went through a ring of capacity 4 (the
\* cursors wrapped around), some by try ops and some by blocking ops.
C1_Witness ==
    /\ capacity_ = 4
    /\ Len(received) = MaxSent
    /\ received = sent
    /\ pop = "try_send" /\ cop = "receive"

\* C2: no loss.  The number of successful receives never exceeds the number
\* of successful sends, and when the producer has halted and a try_receive
\* called after that has reported empty, the two numbers are equal.
C2_NoLoss ==
    /\ Len(received) <= Len(sent)
    /\ (/\ pHalted
        /\ cpc = "idle" /\ cop = "try_receive"
        /\ cres = CHANNEL_EMPTY
        /\ cCall.afterHalt)
       => Len(received) = Len(sent)

\* C2 witness: the producer halted after 5 accepted sends and the consumer
\* drained the ring with try_receive until it reported empty.
C2_Witness ==
    /\ pHalted
    /\ cpc = "idle" /\ cop = "try_receive" /\ cres = CHANNEL_EMPTY
    /\ cCall.afterHalt
    /\ Len(sent) = 5
    /\ Len(received) = 5

\* C3: capacity.  The number of in-flight elements never exceeds
\* capacity_ - 1, and on a ring from which nothing was ever received a
\* try_send reports full exactly when capacity_ - 1 sends have succeeded.
C3_Capacity ==
    /\ InFlight <= capacity_ - 1
    /\ (cop = "none" /\ ppc = "idle" /\ pres = CHANNEL_FULL)
       => Len(sent) = capacity_ - 1

\* C3 witness: on a ring of capacity 8 that the consumer never touched,
\* seven sends succeeded and the eighth try_send reported full.
C3_Witness ==
    /\ capacity_ = 8
    /\ cop = "none"
    /\ ppc = "idle" /\ pop = "try_send" /\ pres = CHANNEL_FULL
    /\ Len(sent) = 7
    /\ InFlight = 7

\* ---------------------------------------------------- capacity rounding
IsPowerOfTwo(x) == \E k \in 0 .. WordBits : x = 2 ^ k

\* c is the smallest power of two that is >= n
SmallestPowerAtLeast(c, n) ==
    /\ IsPowerOfTwo(c)
    /\ c >= n
    /\ \A q \in 1 .. (c - 1) : IsPowerOfTwo(q) => q < n

\* c is the smallest power of two that is > n
SmallestPowerAbove(c, n) ==
    /\ IsPowerOfTwo(c)
    /\ c > n
    /\ \A q \in 1 .. (c - 1) : IsPowerOfTwo(q) => q <= n

\* C4: capacity rounding.  For every requested capacity the ring's
\* capacity is the smallest power of two >= the request, so that a request
\* of 4 gives capacity 4 and at most 3 pending items.
C4_RoundsToAtLeast ==
    /\ SmallestPowerAtLeast(capacity_, requested)
    /\ requested = 4 => InFlight <= 3

ReturnsFull ==
    /\ ppc \notin {"idle", "send_wait"}
    /\ ppc' \in {"idle", "send_wait"}
    /\ pres' = CHANNEL_FULL

\* the step with which a consumer call comes back with CHANNEL_EMPTY
ReturnsEmpty ==
    /\ cpc \notin {"idle", "recv_wait"}
    /\ cpc' \in {"idle", "recv_wait"}
    /\ cres' = CHANNEL_EMPTY

C7_EmptyLeavesOutputUntouched ==
    [][ /\ ReturnsEmpty =>
            /\ cvalue' = cCall.value
            /\ rcvCursor_ = cCall.rcv /\ rcvCursor_' = cCall.rcv
            /\ destructions' = cCall.destroyed
            /\ buffer_' = buffer_
            /\ sendCursor_' = sendCursor_
        /\ (cpc' # cpc) => sendCursor_' = sendCursor_
      ]_vars

\* C7 witness: after receiving value 2 into the caller's variable, a
\* try_receive on the drained ring reported empty and the variable still
\* holds 2.
C7_Witness ==
    /\ cop = "try_receive" /\ cpc = "idle" /\ cres = CHANNEL_EMPTY
    /\ cvalue = <<2>>
    /\ cCall.value = <<2>>
    /\ Len(received) = 3

\* ------------------------------------------------------- wait-freedom
InTrySend == ppc \in {"ts_load", "ts_refresh", "ts_construct", "ts_store"}
InTryReceive == cpc \in {"tr_load", "tr_refresh", "tr_move", "tr_destroy", "tr_store"}

\* C8: try_send and try_receive are wait-free.  Wherever the other thread
\* stands, a started try operation can always take its next step, it has
\* taken fewer than 4 (try_send) or 5 (try_receive) own steps while it is
\* still running, and it ends by returning a status.
C8_WaitFree ==
    /\ InTrySend => (ENABLED TrySendStep /\ pSteps < 4)
    /\ InTryReceive => (ENABLED TryReceiveStep /\ cSteps < 5)
    /\ pSteps <= 4
    /\ cSteps <= 5
    /\ (pop = "try_send" /\ ppc = "idle") => pres \in {SUCCESS, CHANNEL_FULL}
    /\ (cop = "try_receive" /\ cpc = "idle") => cres \in {SUCCESS, CHANNEL_EMPTY}

\* C8 witness: a try_send ran to its CHANNEL_FULL return in two steps while
\* the consumer was stopped in the middle of a try_receive, between the
\* move-out and the destructor call.
C8_Witness ==
    /\ pop = "try_send" /\ ppc = "idle" /\ pres = CHANNEL_FULL /\ pSteps = 2
    /\ cop = "try_receive" /\ cpc = "tr_destroy"

ExampleDone ==
    /\ p_i = N /\ ppc = "idle"
    /\ c_i = N /\ cpc = "idle"
    /\ sent = [k \in 1 .. N |-> <<k - 1>>]
    /\ received = sent

LiveRange ==
    {i \in Slots : BitAnd(i + capacity_ - rcvCursor_, capacity_mask_)
                      < BitAnd(sendCursor_ + capacity_ - rcvCursor_, capacity_mask_)}

\* the slots whose element is destructed by a step
DestructedSlots == {i \in Slots : buffer_[i] # <<>> /\ buffer_'[i] = <<>>}

\* C12: destructor accounting.  Every destructor call ends the life of one
\* live element (none runs on a slot without an element), ~channel runs at
\* most once and destructs exactly the slots of [rcvCursor_, sendCursor_),
\* and after it constructions and destructions balance and no slot holds
\* an element.
C12_DestructorAccounting ==
    [][ /\ destructions' - destructions = Cardinality(DestructedSlots)
        /\ sp_destroyed' <= 1
        /\ (sp_destroyed' # sp_destroyed) => DestructedSlots = LiveRange
        /\ (sp_destroyed' = 1) =>
              /\ constructions' = destructions'
              /\ constructions' = Len(sent')
              /\ \A i \in Slots : buffer_'[i] = <<>>
      ]_vars

\* C12 witness: three elements were sent, two were received, and the
\* channel destructor has destructed the third (example_testing_struct).
C12_Witness ==
    /\ sp_destroyed = 1
    /\ Len(sent) = 3 /\ Len(received) = 2
    /\ constructions = 3 /\ destructions = 3

\* ============================================================ one-shot
\* ---------------------------------------------------- channel lifetime
\* what channel() returns: two engaged handles on one InnerChannel
FactoryResult ==
    /\ handles = {"sender", "receiver"}
    /\ channel_["sender"] /\ channel_["receiver"]
    /\ use_count = 2
    /\ inner_destroyed = 0

Engaged == {h \in Handles : channel_[h]}

\* a step that moves the ownership of the engaged handle src into dst
Moved(src, dst) ==
    /\ channel_[src] /\ ~channel_[dst]
    /\ ~channel_'[src] /\ channel_'[dst]

\* C13: channel lifetime.  The factory returns two engaged handles on one
\* inner state; the owners of the inner state are exactly the engaged
\* handles, at most one per side; the inner state is destroyed once, at the
\* step that drops the last ownership, and not while a handle is engaged;
\* moving an engaged handle engages the target, disengages the source and
\* leaves the number of owners as it was.
C13_ChannelLifetime ==
    /\ FactoryResult
    /\ [][ /\ use_count' = Cardinality(Engaged')
           /\ Cardinality(Engaged' \cap SenderHandles) <= 1
           /\ Cardinality(Engaged' \cap ReceiverHandles) <= 1
           /\ Engaged' \subseteq handles'
           /\ inner_destroyed' = (IF Engaged' = {} THEN 1 ELSE 0)
           /\ \A src, dst \in Handles :
                 Moved(src, dst) =>
                   /\ use_count' = use_count
                   /\ inner_destroyed' = inner_destroyed
                   /\ Engaged' = (Engaged \ {src}) \cup {dst}
         ]_vars

\* C13 witness: both handles were moved into new objects, a value went
\* through the channel, and the inner state is destroyed after the last
\* of the two ownerships was dropped.
C13_Witness ==
    /\ inner_destroyed = 1
    /\ {"sender2", "receiver2"} \subseteq handles
    /\ use_count = 0
    /\ Len(os_received) = 1

\* ------------------------------------------------------ state machine
\* C14: the one-shot state is monotonic.  state_ changes only from NOT_SENT
\* to SENT, at the step where send returns SUCCESS, and from SENT to
\* RECEIVED, at the step where try_receive returns SUCCESS.
C14_StateMonotonic ==
    [][ (state_' # state_) =>
          \/ /\ state_ = NOT_SENT_MASK /\ state_' = SENT_MASK
             /\ os_spc = "send_store" /\ os_spc' = "idle" /\ os_sres' = SUCCESS
          \/ /\ state_ = SENT_MASK /\ state_' = RECEIVED_MASK
             /\ os_rpc = "try_store" /\ os_rpc' = "idle" /\ os_rres' = SUCCESS
      ]_vars

\* C14 witness: the state went NOT_SENT -> SENT -> RECEIVED and a further
\* send and a further try_receive were made after that.
C14_Witness ==
    /\ state_ = RECEIVED_MASK
    /\ os_spc = "idle" /\ os_sres = SENDER_CLOSED /\ os_sCall.state = RECEIVED_MASK
    /\ os_rpc = "idle" /\ os_rres = RECEIVER_CLOSED

\* --------------------------------------------------------- single send
\* the sending thread takes a step of its current send call
SendStepTaken == os_spc # "idle" /\ os_spc' # os_spc

\* C15: single send.  At most one send returns SUCCESS, and a send that
\* was issued when the state was not NOT_SENT returns SENDER_CLOSED at its
\* first step, constructing nothing in the slot and leaving state_ alone.
C15_SingleSend ==
    [][ /\ Len(os_sent') <= 1
        /\ (SendStepTaken /\ os_sCall.state # NOT_SENT_MASK) =>
              /\ os_spc' = "idle" /\ os_sres' = SENDER_CLOSED
              /\ os_constructions' = os_constructions
              /\ value_' = value_
              /\ state_' = state_
              /\ os_sent' = os_sent
      ]_vars

\* C15 witness: after the successful send two more sends were refused,
\* the last one while the value was still waiting in the slot.
C15_Witness ==
    /\ os_sends = 3 /\ os_spc = "idle"
    /\ Len(os_sent) = 1 /\ os_constructions = 1
    /\ os_sres = SENDER_CLOSED /\ os_sCall.state = SENT_MASK
    /\ state_ = SENT_MASK /\ value_ = os_sent[1]

\* ------------------------------------------------------ single receive
\* the receiving thread executes the load of InnerChannel::try_receive
ReceiveLoadTaken == os_rpc = "try_load" /\ os_rpc' # os_rpc

\* C16: single receive.  At most one try_receive returns SUCCESS, and a
\* try_receive issued after the successful one returns RECEIVER_CLOSED at
\* its load, without touching the slot or the state and with the output
\* variable as the caller passed it.
C16_SingleReceive ==
    [][ /\ Len(os_received') <= 1
        /\ (ReceiveLoadTaken /\ os_rCall.afterSuccess) =>
              /\ os_rres' = RECEIVER_CLOSED
              /\ (os_rop = "try_receive") => os_rpc' = "idle"
              /\ os_out' = os_rCall.out
              /\ value_' = value_
              /\ state_' = state_
              /\ os_destructions' = os_destructions
              /\ os_received' = os_received
      ]_vars

\* C16 witness: the first try_receive got the value, the next two were
\* refused and the caller's output variable still holds 0.
C16_Witness ==
    /\ os_recvs = 3 /\ os_rpc = "idle" /\ os_rop = "try_receive"
    /\ Len(os_received) = 1
    /\ os_rres = RECEIVER_CLOSED /\ os_rCall.afterSuccess
    /\ os_out = <<0>> /\ os_rCall.out = <<0>>
    /\ value_ = <<>> /\ os_destructions = 1

\* ------------------------------------------------- receive before send
\* C17: try_receive before any send.  A try_receive whose load finds
\* NOT_SENT returns CHANNEL_EMPTY, leaves state_ at NOT_SENT and the output
\* variable as the caller passed it; and a send issued while the state is
\* NOT_SENT returns SUCCESS however many empty receives came before it.
C17_EmptyBeforeSend ==
    [][ /\ (ReceiveLoadTaken /\ state_ = NOT_SENT_MASK) =>
              /\ os_rres' = CHANNEL_EMPTY
              /\ (os_rop = "try_receive") => os_rpc' = "idle"
              /\ state_' = NOT_SENT_MASK
              /\ os_out' = os_rCall.out
              /\ value_' = value_
        /\ (SendStepTaken /\ os_spc' = "idle" /\ os_sCall.state = NOT_SENT_MASK) =>
              os_sres' = SUCCESS
      ]_vars

\* C17 witness: three try_receive calls returned CHANNEL_EMPTY with the
\* output variable still 0, and the send issued after them succeeded.
C17_Witness ==
    /\ os_recvs = 3 /\ os_rpc = "idle" /\ os_rop = "try_receive"
    /\ os_rres = CHANNEL_EMPTY /\ os_out = <<0>>
    /\ os_sCall.emptied = 3
    /\ os_spc = "idle" /\ os_sres = SUCCESS /\ state_ = SENT_MASK

\* ----------------------------------------------------- value integrity
\* C18: value integrity under race.  Whenever the receiver is about to
\* read the slot, the one successful send has completed and the slot holds
\* the object it constructed; what the receiver has moved out, and what a
\* successful receive returned, is exactly the value sent; and state_ is
\* not NOT_SENT only after the construction.
C18_ValueIntegrity ==
    /\ (os_rpc = "try_move") =>
          (Len(os_sent) = 1 /\ value_ # <<>> /\ value_ = os_sent[1])
    /\ (os_rpc \in {"try_destroy", "try_store"}) =>
          (Len(os_sent) = 1 /\ os_out = os_sent[1])
    /\ (os_received # <<>>) => (os_received = os_sent)
    /\ (os_rpc = "idle" /\ os_rres = SUCCESS) => (os_out = os_sent[1])
    /\ (state_ # NOT_SENT_MASK) => (os_constructions = 1 /\ Len(os_sent) = 1)

\* C18 witness: a blocking receive that started while send(2) had
\* constructed the value but not yet published it returned 2.
C18_Witness ==
    /\ os_rop = "receive" /\ os_rpc = "idle" /\ os_rres = SUCCESS
    /\ os_rCall.sendAt = "send_store"
    /\ os_sent = << <<2>> >> /\ os_received = << <<2>> >>
    /\ os_out = <<2>>

\* ------------------------------------------------------------- no leak
\* C19: no leak.  Every ~T() on the slot runs on a live object; when the
\* inner state is destroyed in state SENT its destructor destructs the
\* slot, in state NOT_SENT or RECEIVED it leaves the slot alone; and once
\* the inner state is gone the value of a successful send was destructed
\* exactly once and nothing else was.
C19_NoLeak ==
    [][ /\ os_destructions' - os_destructions =
              (IF value_ # <<>> /\ value_' = <<>> THEN 1 ELSE 0)
        /\ (inner_destroyed' # inner_destroyed) =>
              /\ (state_ = SENT_MASK) => (os_destructions' = os_destructions + 1)
              /\ (state_ # SENT_MASK) =>
                    (os_destructions' = os_destructions /\ value_' = value_)
        /\ (inner_destroyed' = 1) =>
              /\ os_destructions' = Len(os_sent')
              /\ os_constructions' = os_destructions'
              /\ value_' = <<>>
      ]_vars

\* C19 witness: a value was sent, a try_receive before the send found the
\* channel empty, both handles were dropped and ~InnerChannel destructed
\* the value that was never received.
C19_Witness ==
    /\ inner_destroyed = 1
    /\ state_ = SENT_MASK
    /\ Len(os_sent) = 1 /\ os_received = <<>>
    /\ os_rres = CHANNEL_EMPTY
    /\ os_constructions = 1 /\ os_destructions = 1

\* ------------------------------------------------------ slot invariant
\* send has constructed the value and not yet stored SENT
SendWindow == os_spc = "send_store"
\* try_receive has destructed the value and not yet stored RECEIVED
ReceiveWindow == os_rpc = "try_store"

\* C20 (as claimed): in every reachable state of a live channel, the
\* states between the steps of send and try_receive included, an object is
\* constructed in the slot iff state_ is SENT.
C20_SlotIffSent ==
    (inner_destroyed = 0) => ((value_ # <<>>) <=> (state_ = SENT_MASK))

\* C20 (amended): in every reachable state of a live channel an object is
\* constructed in the slot iff state_ is SENT and try_receive is not
\* between its destructor call and its store, or state_ is NOT_SENT and
\* send is between its construction and its store.  So slot and state
\* agree in every state outside these two windows.
C20_SlotIffSentOutsideWindows ==
    (inner_destroyed = 0) =>
        /\ (value_ # <<>>) <=> \/ (state_ = SENT_MASK /\ ~ReceiveWindow)
                                \/ (state_ = NOT_SENT_MASK /\ SendWindow)
        /\ SendWindow => state_ = NOT_SENT_MASK
        /\ ReceiveWindow => state_ = SENT_MASK

\* C20 witness: try_receive has destructed the value that was sent and has
\* not yet stored RECEIVED.
C20_Witness ==
    /\ inner_destroyed = 0
    /\ ReceiveWindow
    /\ os_spc = "idle" /\ os_sres = SUCCESS
    /\ state_ = SENT_MASK
    /\ value_ = <<>>

\* --------------------------------------------------- blocking receive
\* a blocking receive() issued before any value was received is running
FirstReceiveRunning ==
    os_rop = "receive" /\ os_rpc # "idle" /\ ~os_rCall.afterSuccess

\* the blocking receive() has returned the value that was sent
ReceiveReturnedValue ==
    /\ os_rop = "receive" /\ os_rpc = "idle" /\ os_rres = SUCCESS
    /\ Len(os_sent) = 1
    /\ os_out = os_sent[1]

\* C21: progress of the blocking receive.  With the sender issuing its
\* send and both threads scheduled fairly, a receive() issued before any
\* value was received eventually returns the value sent, under BUSY_LOOP,
\* YIELD and ATOMIC_WAIT and whichever of send and receive comes first;
\* under ATOMIC_WAIT this needs the parked receiver to be woken by the
\* sender's notification (spurious wake-ups are not relied on).
C21_ReceiveProgress == FirstReceiveRunning ~> ReceiveReturnedValue

\* C21 witness: under ATOMIC_WAIT a receive() that parked on NOT_SENT
\* before the send has returned the value 2.
C21_Witness ==
    /\ os_Wait = ATOMIC_WAIT
    /\ ReceiveReturnedValue
    /\ os_waited = "parked"
    /\ os_rCall.sendAt = "idle" /\ os_recvs = 1
    /\ os_out = <<2>>

\* a blocking receive() issued after the value was received is running
LateReceiveRunning ==
    os_rop = "receive" /\ os_rpc # "idle" /\ os_rCall.afterSuccess

\* C22: a receive() called after the value was received never returns.
\* Every try of it reports RECEIVER_CLOSED, it never blocks in state_.wait
\* and it never hands a value or a status to its caller, under every wait
\* strategy.
C22_LateReceiveNeverReturns ==
    [][ LateReceiveRunning =>
          /\ os_rpc' # "idle"
          /\ os_rpc' # "parked"
          /\ os_rop' = "receive"
          /\ os_rres' \in {NoStatus, RECEIVER_CLOSED}
          /\ os_received' = os_received
          /\ os_out' = os_out
      ]_vars

\* C22 witness: under ATOMIC_WAIT a receive() issued after a successful
\* receive has been refused and went through its wait strategy.
C22_Witness ==
    /\ os_Wait = ATOMIC_WAIT
    /\ LateReceiveRunning
    /\ os_rres = RECEIVER_CLOSED
    /\ os_waited = "spun"
    /\ os_rpc = "try_load"

\* ============================================================ arc_ptr
\* the arc_ptr objects that hold a pointer they may still use: all that are
\* not null, except one whose release() has already given up its count
Holding == {h \in ArcHandles :
              /\ inner[h] # 0
              /\ ~\E t \in ArcThreads :
                    arc_op[t].dst = h /\ arc_pc[t] = "release_delete"}

\* thread t executes the `delete inner` of payload p in this step
Deletes(t, p) ==
    /\ arc_pc[t] = "release_delete" /\ arc_pc'[t] # "release_delete"
    /\ inner[arc_op[t].dst] = p
    /\ arc_payload[p] = "live" /\ arc_payload'[p] = "deleted"

\* C23: Arc refcount.  In every state reached by the copies, moves and
\* drops of two threads, every arc_ptr that holds a pointer points to a
\* live payload whose ref_count is at least 1; no payload is accessed after
\* its delete; a payload is deleted at most once, by the release() whose
\* fetch_sub returned 1, and a payload that no arc_ptr points to any more
\* has been deleted.
C23_ArcRefcount ==
    [][ /\ \A h \in Holding' :
              ref_count'[inner'[h]] >= 1 /\ arc_payload'[inner'[h]] = "live"
        /\ ~arc_uaf'
        /\ \A p \in Payloads :
              /\ arc_deletes'[p] <= 1
              /\ (arc_payload'[p] # arc_payload[p] /\ arc_payload'[p] = "deleted") =>
                    \E t \in ArcThreads : Deletes(t, p) /\ arc_old[t] = 1
              /\ (arc_payload'[p] = "live") => (\E h \in ArcHandles : inner'[h] = p)
      ]_vars

\* C23 witness: both threads were dropping their handle of payload 1 at
\* the same time; thread 2 saw the count 1 and has deleted the payload
\* while thread 1, which saw 2, has not yet finished its release().
C23_Witness ==
    /\ arc_payload[1] = "deleted" /\ arc_deletes[1] = 1
    /\ arc_pc[1] = "release_delete" /\ arc_old[1] = 2
    /\ inner[arc_op[1].dst] = 1
    /\ arc_pc[2] = "idle"

\* use_count() of the arc_ptr object h
use_count_of(h) == IF inner[h] # 0 THEN ref_count[inner[h]] ELSE 0

\* C24: Arc use_count.  The ref_count of a live payload is the number of
\* arc_ptr objects that refer to it (1 after make_arc; an object counts
\* from the fetch_add of its copy until the fetch_sub of its release, a
\* move hands the place of the source to the target), and every
\* use_count() call returned that number, 0 on a null handle.
C24_ArcUseCount ==
    /\ \A p \in Payloads :
          (arc_payload[p] = "live") => (ref_count[p] = Cardinality(Holders(p)))
    /\ \A h \in ArcHandles :
          (arc_status[h] = "live" /\ inner[h] = 0) => use_count_of(h) = 0
    /\ \A h \in ArcHandles :
          (inner[h] # 0 /\ h \in Holders(inner[h])) =>
              use_count_of(h) = Cardinality(Holders(inner[h]))
    /\ arc_seen.value = arc_seen.holders

\* C24 witness: three arc_ptr objects of the two threads share the second
\* payload, the fourth is a null handle, a use_count() call returned 3,
\* and the first payload is gone.
C24_Witness ==
    /\ arc_seen.value = 3
    /\ ref_count[2] = 3
    /\ inner["a1"] = 2 /\ inner["b1"] = 2 /\ inner["b2"] = 2
    /\ arc_status["a2"] = "live" /\ inner["a2"] = 0
    /\ arc_payload[1] = "deleted"
    /\ \A t \in ArcThreads : arc_pc[t] = "idle"

\* ==================================================== one-shot, flag
\* C25: boolean-flag one-shot.  A try_receive called after a try_receive
\* has returned SUCCESS does not touch *value_ and returns
\* RECEIVER_CLOSED.
C25_LaterTryReceiveClosed ==
    fl_rCall.afterSuccess =>
        /\ ~fl_rCall.accessed
        /\ (fl_rpc = "idle" => fl_rres = RECEIVER_CLOSED)

\* C26: boolean-flag one-shot.  Every Receiver::is_closed() call returned
\* true if a try_receive had returned SUCCESS before it and false if none
\* had.
C26_IsClosedTracksReceive == fl_closed.value = fl_closed.received

\* ================================================== SPSC ring, cursors
\* a step of try_send / of try_receive
TrySendTaken ==
    ppc \in {"ts_load", "ts_refresh", "ts_construct", "ts_store"} /\ ppc' # ppc
TryReceiveTaken ==
    cpc \in {"tr_load", "tr_refresh", "tr_move", "tr_destroy", "tr_store"} /\ cpc' # cpc

\* C30: cursor ownership (WaitOnFull ring).  Both cursors stay in
\* [0, capacity); sendCursor_ changes only in the last step of a try_send
\* that returns SUCCESS and rcvCursor_ only in the last step of a
\* try_receive that returns SUCCESS, each time by exactly one modulo
\* capacity; no step of try_send changes rcvCursor_ or the consumer's
\* sendCursorCache_, and no step of try_receive changes sendCursor_ or
\* the producer's rcvCursorCache_.
C30_CursorOwnership ==
    /\ sendCursor_ \in 0 .. capacity_ - 1 /\ rcvCursor_ \in 0 .. capacity_ - 1
    /\ [][ /\ sendCursor_' \in 0 .. capacity_ - 1
           /\ rcvCursor_' \in 0 .. capacity_ - 1
           /\ (sendCursor_' # sendCursor_) => (TrySendTaken /\ ppc = "ts_store")
           /\ (rcvCursor_' # rcvCursor_) => (TryReceiveTaken /\ cpc = "tr_store")
           /\ (TrySendTaken /\ ppc = "ts_store") =>
                 (pres' = SUCCESS /\ sendCursor_' = (sendCursor_ + 1) % capacity_)
           /\ (TryReceiveTaken /\ cpc = "tr_store") =>
                 (cres' = SUCCESS /\ rcvCursor_' = (rcvCursor_ + 1) % capacity_)
           /\ (pres' = SUCCESS /\ pres # SUCCESS) => (ppc = "ts_store")
           /\ (cres' = SUCCESS /\ cres # SUCCESS) => (cpc = "tr_store")
           /\ TrySendTaken =>
                 (rcvCursor_' = rcvCursor_ /\ sendCursorCache_' = sendCursorCache_)
           /\ TryReceiveTaken =>
                 (sendCursor_' = sendCursor_ /\ rcvCursorCache_' = rcvCursorCache_)
         ]_vars

\* C30 witness: on a ring of capacity 4 the fifth send has wrapped
\* sendCursor_ to 1 and the fourth receive has wrapped rcvCursor_ to 0.
C30_Witness ==
    /\ capacity_ = 4
    /\ Len(sent) = 5 /\ sendCursor_ = 1
    /\ Len(received) = 4 /\ rcvCursor_ = 0
    /\ ppc = "idle" /\ cpc = "idle"

\* ============================================== SPSC, OverwriteOnFull
\* the number of elements an overwriting ring keeps of n sent ones
Kept(n) == IF n < capacity_ - 1 THEN n ELSE capacity_ - 1

\* the last k elements of a sequence
Newest(seq, k) == SubSeq(seq, Len(seq) - k + 1, Len(seq))

\* the elements in the ring, oldest first
Pending ==
    [i \in 1 .. ((sendCursor_ - rcvCursor_) % capacity_) |->
        buffer_[(rcvCursor_ + i - 1) % capacity_]]

DrainDone == cpc = "idle" /\ cres = CHANNEL_EMPTY

\* C27: SPSC OverwriteOnFull.  No send fails or waits; between two sends,
\* before the consumer starts, the ring holds the newest capacity - 1 of
\* the values sent so far (all of them while there are fewer), oldest
\* first, so each send on a full ring has discarded the oldest; when the
\* drain has seen CHANNEL_EMPTY the values received are exactly those, in
\* send order, and never more than N receives succeed.
C27_OverwriteKeepsNewest ==
    /\ pres \in {NoStatus, SUCCESS} /\ ppc # "send_wait"
    /\ Len(received) <= N
    /\ (ppc = "idle" /\ c_i = 0) => Pending = Newest(sent, Kept(Len(sent)))
    /\ DrainDone => (Len(sent) = N /\ received = Newest(sent, Kept(N)))

\* C27 witness: 8 values were sent into a ring of capacity 4 and the drain
\* returned 5, 6, 7 and then CHANNEL_EMPTY.
C27_Witness ==
    /\ DrainDone
    /\ N = 8 /\ capacity_ = 4
    /\ received = << <<5>>, <<6>>, <<7>> >>
    /\ c_i = 4

\* =================================================== SPSC, AtomicWait
ConsumerParked == cpc = "recv_parked"
ProducerParked == ppc = "send_parked"

\* the blocking receive has returned the next value in send order
ReceiveReturned ==
    /\ cpc = "idle" /\ cres = SUCCESS
    /\ Len(received) <= Len(sent)
    /\ received = SubSeq(sent, 1, Len(received))

\* C29: SPSC AtomicWait.  A parked thread whose peer cursor has moved is
\* still owed the peer's notify (no wake-up is lost); on a ring with at
\* least one usable slot, under fair scheduling, a consumer parked on the
\* empty ring gets its receive returned with the next value sent, a
\* producer parked on the full ring gets its send returned, and the whole
\* exchange of N messages completes with the values received in the order
\* sent.
C29_AtomicWaitProgress ==
    /\ [](ConsumerParked /\ sendCursor_ # sendCursorCache_ => ppc = "ts_notify")
    /\ [](ProducerParked /\ rcvCursor_ # rcvCursorCache_ => cpc = "tr_notify")
    /\ (ConsumerParked /\ capacity_ >= 2) ~> ReceiveReturned
    /\ (ProducerParked /\ capacity_ >= 2) ~> (ppc = "idle" /\ pres = SUCCESS)
    /\ (capacity_ >= 2) => <>ExampleDone

\* C29 witness: an exchange of more messages than the ring has slots has
\* completed; the last send had parked on the full ring and the last
\* receive had parked on the empty ring.
C29_Witness ==
    /\ ExampleDone
    /\ capacity_ >= 2
    /\ N > capacity_
    /\ pCall.waited /\ cCall.waited

\* ================================================ SPSC ring, live range
\* neither thread is inside try_send / try_receive
NoTryInProgress == ~InTrySend /\ ~InTryReceive

\* the slots that hold a constructed element
ConstructedSlots == {i \in Slots : buffer_[i] # <<>>}

\* (sendCursor_ - rcvCursor_) & capacity_mask_ in size_t arithmetic
CursorDistance == BitAnd((sendCursor_ + Word - rcvCursor_) % Word, capacity_mask_)

\* C31: live interval.  Whenever no try operation is in progress, the
\* slots holding an element are exactly those of [rcvCursor_, sendCursor_)
\* modulo capacity_, their number is (sendCursor_ - rcvCursor_) & mask and
\* equals successful sends minus successful receives, the ring holds no
\* element exactly when the cursors are equal and capacity_ - 1 elements
\* exactly when (sendCursor_ + 1) & mask = rcvCursor_.
C31_LiveInterval ==
    NoTryInProgress =>
        /\ ConstructedSlots = LiveRange
        /\ Cardinality(ConstructedSlots) = CursorDistance
        /\ CursorDistance = Len(sent) - Len(received)
        /\ (Cardinality(ConstructedSlots) = 0) <=> (sendCursor_ = rcvCursor_)
        /\ (Cardinality(ConstructedSlots) = capacity_ - 1)
              <=> (next_index(sendCursor_) = rcvCursor_)

\* C31 witness: between operations, on a ring of capacity 4, the live
\* range has wrapped around: slots 3 and 0 hold the two pending elements.
C31_Witness ==
    /\ NoTryInProgress
    /\ capacity_ = 4
    /\ rcvCursor_ = 3 /\ sendCursor_ = 1
    /\ ConstructedSlots = {0, 3}
    /\ Len(sent) = 5 /\ Len(received) = 3

\* =============================================== SPSC ring, cached cursors
\* C32: the cached peer cursors are sound.  However stale rcvCursorCache_
\* and sendCursorCache_ are, when the producer is about to construct, its
\* slot holds no element, lies outside [rcvCursor_, sendCursor_) and is not
\* the slot the consumer is moving from or destructing; when the consumer
\* is about to move, its slot holds the oldest element sent and not yet
\* received, lies inside [rcvCursor_, sendCursor_), and is not the slot the
\* producer is constructing or about to publish.
C32_CachesSound ==
    /\ (ppc = "ts_construct") =>
          /\ buffer_[sendCursor] = <<>>
          /\ sendCursor \notin LiveRange
          /\ ~(cpc \in {"tr_move", "tr_destroy"} /\ rcvCursor = sendCursor)
    /\ (cpc = "tr_move") =>
          /\ rcvCursor \in LiveRange
          /\ Len(received) < Len(sent)
          /\ buffer_[rcvCursor] = sent[Len(received) + 1]
          /\ ~(ppc \in {"ts_construct", "ts_store"} /\ sendCursor = rcvCursor)

\* C32 witness: both threads have passed their fast-path check with a
\* stale cache and no refresh: the producer is about to construct and the
\* consumer is about to move, on a ring of capacity 8 after 5 sends and 2
\* receives.
C32_Witness ==
    /\ ppc = "ts_construct" /\ pSteps = 1 /\ rcvCursorCache_ # rcvCursor_
    /\ cpc = "tr_move" /\ cSteps = 1 /\ sendCursorCache_ # sendCursor_
    /\ capacity_ = 8
    /\ Len(sent) >= 5 /\ Len(received) >= 2

\* C33: no spurious failure.  A try_send that reports full re-read
\* rcvCursor_ at a moment when capacity_ - 1 elements were in the ring, a
\* try_receive that reports empty re-read sendCursor_ at a moment when
\* none was; a try_send whose comparison with rcvCursorCache_ lets it pass
\* without a refresh finds fewer than capacity_ - 1 elements, and a
\* try_receive that passes without a refresh finds at least one.
C33_NoSpuriousFailure ==
    [][ /\ (ppc = "ts_refresh" /\ ppc' \notin {"ts_refresh", "ts_construct"})
              => (pres' = CHANNEL_FULL /\ InFlight = capacity_ - 1)
        /\ (cpc = "tr_refresh" /\ cpc' \notin {"tr_refresh", "tr_move"})
              => (cres' = CHANNEL_EMPTY /\ InFlight = 0)
        /\ (ppc = "ts_load" /\ ppc' = "ts_construct") => InFlight < capacity_ - 1
        /\ (cpc = "tr_load" /\ cpc' = "tr_move") => InFlight > 0
        /\ (pres' = CHANNEL_FULL /\ pres # CHANNEL_FULL) => ppc = "ts_refresh"
        /\ (cres' = CHANNEL_EMPTY /\ cres # CHANNEL_EMPTY) => cpc = "tr_refresh"
      ]_vars

\* C33 witness: with a cache that lagged behind the consumer, try_send
\* refreshed it and reported full on a ring of capacity 4 that had wrapped
\* around and held 3 elements.
C33_Witness ==
    /\ ppc = "idle" /\ pop = "try_send" /\ pres = CHANNEL_FULL
    /\ capacity_ = 4
    /\ InFlight = 3
    /\ Len(received) >= 2
    /\ rcvCursorCache_ = rcvCursor_

\* C34: boolean-flag one-shot, no leak.  Once the channel is destroyed,
\* the T destructor has run once if a send succeeded and not at all
\* otherwise, and the storage allocated by InnerChannel() has been
\* released exactly once.
C34_FlagNoLeak ==
    ~fl_alive =>
        /\ fl_destructs = fl_sent
        /\ fl_frees = 1

\* C35: boolean-flag one-shot.  Every Sender::is_closed() call returned
\* true if a send had returned SUCCESS before it and false if none had; a
\* send called when is_closed() was true returns SENDER_CLOSED and
\* constructs nothing, so at most one T is ever constructed.
C35_SenderClosed ==
    /\ fl_sclosed.value = fl_sclosed.sent
    /\ (fl_sent > 0) = isSentCache_ \/ fl_spc = "send_store"
    /\ (fl_sCall.closedBefore /\ fl_spc = "idle" /\ fl_sres # NoStatus) =>
          (fl_sres = SENDER_CLOSED /\ fl_built = fl_sCall.built)
    /\ fl_sCall.closedBefore => fl_spc \in {"idle", "send_check"}
    /\ fl_built <= 1

\* C35 witness: the first send returned SUCCESS, is_closed() then returned
\* true, and the third send has returned SENDER_CLOSED with one T built.
C35_Witness ==
    /\ fl_sclosed = [value |-> TRUE, sent |-> TRUE]
    /\ fl_spc = "idle" /\ fl_sres = SENDER_CLOSED
    /\ fl_sends = 3 /\ fl_sent = 1
    /\ fl_built = 1

C37_TerminatesWithPowerOfTwo ==
    /\ <>(np_pc = "done")
    /\ [](np_pc = "done" => IsPowerOfTwo(np_result[1]))

\* ------------------------------------------------- arc_ptr assignment
ArcAssignKinds == {"copy_assign", "move_assign"}

\* thread t is inside a copy- or move-assignment
ArcAssigning(t) == arc_op[t].kind \in ArcAssignKinds /\ arc_pc[t] # "idle"

\* C38: Arc assignment.  A copy- or move-assignment dst = src of two
\* different arc_ptr objects subtracts one from the count of the payload
\* dst held, once (its release() is never entered again), deletes that
\* payload if and only if the subtraction saw the count 1, leaves the
\* payload of src live throughout, also when dst and src held the same
\* payload, and ends with dst holding the payload of src (counted once
\* more by a copy, src emptied by a move); an assignment of an object to
\* itself never enters release() and changes no pointer, count or payload.
C38_ArcAssignment ==
    [][ /\ \A t \in ArcThreads :
              LET dst == arc_op[t].dst
                  src == arc_op[t].src
                  old == inner[dst]
              IN  ArcAssigning(t) =>
                    /\ (arc_pc[t] = "release" /\ arc_pc'[t] # "release" /\ old # 0) =>
                          /\ ref_count'[old] = ref_count[old] - 1
                          /\ arc_old'[t] = ref_count[old]
                          /\ arc_pc'[t] = "release_delete"
                          /\ arc_payload' = arc_payload
                    /\ (arc_pc[t] = "release_delete" /\ arc_pc'[t] # "release_delete") =>
                          /\ ref_count' = ref_count
                          /\ (arc_old[t] = 1) <=> Deletes(t, old)
                          /\ \A p \in Payloads \ {old} : arc_payload'[p] = arc_payload[p]
                          /\ inner'[dst] = inner[src]
                          /\ inner'[src] = (IF arc_op[t].kind = "move_assign"
                                            THEN 0 ELSE inner[src])
                    /\ (arc_pc[t] = "copy_add" /\ arc_pc'[t] # "copy_add") =>
                          /\ inner[dst] = inner[src] /\ inner' = inner
                          /\ ref_count'[inner[dst]] = ref_count[inner[dst]] + 1
                          /\ arc_payload' = arc_payload
                    /\ (inner[src] # 0) =>
                          /\ arc_payload[inner[src]] = "live"
                          /\ arc_payload'[inner[src]] = "live"
                    /\ arc_pc'[t] = "release" => arc_pc[t] = "release"
        /\ \A t \in ArcThreads :
              (arc_op'[t].kind \in ArcAssignKinds) => (arc_op'[t].dst # arc_op'[t].src)
        /\ (arc_self' # arc_self) =>
              /\ inner' = inner /\ ref_count' = ref_count
              /\ arc_payload' = arc_payload /\ arc_deletes' = arc_deletes
              /\ arc_pc' = arc_pc
      ]_vars

\* C38 witness: after a self-assignment, thread 1 is copy-assigning a1 = a2
\* while both hold payload 1 with no third handle: its release() saw the
\* count 2 and has not deleted, and the other payload has been deleted by
\* an earlier release.
C38_Witness ==
    /\ arc_self
    /\ arc_op[1] = [kind |-> "copy_assign", dst |-> "a1", src |-> "a2"]
    /\ arc_pc[1] = "release_delete"
    /\ inner["a1"] = 1 /\ inner["a2"] = 1
    /\ arc_old[1] = 2 /\ ref_count[1] = 1
    /\ arc_payload[1] = "live"
    /\ arc_payload[2] = "deleted"

\* ========================================================= spsc_mutex
\* the writer, resp. the reader, takes a step
WriterSteps == mxWriterVars' # mxWriterVars
ReaderSteps == mxReaderVars' # mxReaderVars

\* what holds of the queue whenever the mutex is free
MutexQueueConsistent ==
    /\ mx_size = Len(mx_written) - Len(mx_read)
    /\ mx_capacity > 0 =>
          /\ write_index \in 0 .. (mx_capacity - 1)
          /\ read_index \in 0 .. (mx_capacity - 1)
          /\ IF mx_size = mx_capacity
             THEN write_index = read_index
             ELSE mx_size = (write_index + mx_capacity - read_index) % mx_capacity
          /\ \A k \in 0 .. (mx_size - 1) :
                mx_buffer[(read_index + k) % mx_capacity] =
                    <<mx_written[Len(mx_read) + 1 + k]>>
    /\ mx_capacity = 0 => (write_index = 0 /\ read_index = 0)

\* C39: spsc_mutex with one writer and one reader.  Always
\* 0 <= size <= capacity and the values read are, in order, the first
\* values written; whenever the mutex is free, size is the number of
\* values written and not yet read and equals (write_index - read_index)
\* mod capacity, or capacity with equal indices when the queue is full;
\* a write() or read() returns false only from its try_lock or its size
\* test, and no step of a call that returns false changes the buffer, the
\* indices or size; a true return follows exactly one store or load.
C39_MutexQueue ==
    /\ [](/\ mx_size \in 0 .. mx_capacity
          /\ Len(mx_read) <= Len(mx_written)
          /\ mx_read = SubSeq(mx_written, 1, Len(mx_read))
          /\ (mtx = "free") => MutexQueueConsistent)
    /\ [][ /\ (WriterSteps /\ mx_wres'.ret = "false") =>
                /\ mx_wpc \in {"w_trylock", "w_check"}
                /\ mxQueueVars' = mxQueueVars
                /\ mx_written' = mx_written
                /\ mx_wres'.why = "full" <=> (mx_wpc = "w_check" /\ mx_size = mx_capacity)
                /\ mx_wres'.why = "held" <=> (mx_wpc = "w_trylock" /\ mtx = "reader")
           /\ (WriterSteps /\ mx_wpc \in {"idle", "w_trylock", "w_check"}) =>
                 (mxQueueVars' = mxQueueVars /\ mx_written' = mx_written)
           /\ (ReaderSteps /\ mx_rres'.ret = "false") =>
                /\ mx_rpc \in {"r_trylock", "r_check"}
                /\ mxQueueVars' = mxQueueVars
                /\ mx_read' = mx_read
                /\ mx_rres'.why = "empty" <=> (mx_rpc = "r_check" /\ mx_size = 0)
                /\ mx_rres'.why = "held" <=> (mx_rpc = "r_trylock" /\ mtx = "writer")
           /\ (WriterSteps /\ mx_wres'.ret = "true") =>
                 (mx_wpc = "w_unlock" /\ mtx = "writer" /\ mtx' = "free")
           /\ (ReaderSteps /\ mx_rres'.ret = "true") =>
                 (mx_rpc = "r_unlock" /\ mtx = "reader" /\ mtx' = "free"
                  /\ mx_rvalue = <<mx_read[Len(mx_read)]>>)
      ]_vars

\* C39 witness: on a queue of capacity 3 whose write_index has wrapped
\* around (three values written, one read, two still queued) the write()
\* of the writer has returned false because the reader held the mutex,
\* and the reader is inside read().
C39_Witness ==
    /\ mx_capacity = 3
    /\ Len(mx_written) = 3 /\ Len(mx_read) = 1
    /\ write_index = 0 /\ read_index = 1
    /\ mx_size = 2
    /\ mx_wpc = "idle" /\ mx_wres = [ret |-> "false", why |-> "held"]
    /\ mtx = "reader" /\ mx_rpc = "r_check"

====
